---------------------------- MODULE Spec2Model ----------------------------
(***************************************************************************)
(* Model of the slideshow image processor.                                 *)
(*                                                                         *)
(* Entry points modelled (variable entry):                                 *)
(*   "shard"   -- src/main.ts: sharded batch coordinator, calls            *)
(*                processImage (src/processor.ts, v1) per source           *)
(*   "handler" -- src/processor.ts: POST /process, calls processImage      *)
(*   "job"     -- src/main-v2.ts: single-source job, calls processSourceV2 *)
(*   "v2"      -- a direct call of processSourceV2 (src/processor-v2.ts)   *)
(*   "v2old"   -- a direct call of the older processSourceV2               *)
(*                (src/unnamed/part_000, no layouts)                       *)
(*   "calc"    -- direct calls of the pure functions determineOrientation  *)
(*                and calculateCropPercentage (src/processor-v2.ts)        *)
(*   "race"    -- several workers running processSourceV2 at the same time *)
(*                behind the job's existence check (src/main-v2.ts)        *)
(*   "fleet"   -- the task instances of one execution of the sharded       *)
(*                coordinator, each fetching the pending list itself       *)
(*                                                                         *)
(* Every await whose outcome the environment decides (storage, backend,    *)
(* image library) is a nondeterministic choice between its success and a   *)
(* thrown error.                                                           *)
(***************************************************************************)
EXTENDS Integers, Sequences, FiniteSets, TLC

\* ------------------------------------------------------------- bounds
MaxBatch == 3      \* longest pending list the backend returns
MaxTasks == 3      \* largest CLOUD_RUN_TASK_COUNT
MaxSched == 3      \* largest 0-based scheduler attempt counter
MaxDevices == 2    \* longest device list
NContents == 2     \* number of distinct source byte contents
MaxSide == 33      \* largest source width / height of a direct function call
NWorkers == 2      \* workers running processSourceV2 concurrently
FleetCount == 2    \* task instances of one execution of the sharded coordinator

\* ---------------------------------------------------- program constants
MAX_RETRIES == 3

NoHeader == -1     \* X-CloudTasks-TaskExecutionCount header absent
NoHash == 0        \* blobHash not computed yet
TargetId == 7      \* TARGET_FILE_ID / imageId of the single-source entries
DefaultTaskIndex == 0    \* parseInt(Deno.env.get("CLOUD_RUN_TASK_INDEX") || "0")
DefaultTaskCount == 1    \* parseInt(Deno.env.get("CLOUD_RUN_TASK_COUNT") || "1")

Entries == {"shard", "handler", "job", "v2", "v2old", "calc", "race", "fleet"}

\* ------------------------------------------------------------ helpers
Abs(x) == IF x < 0 THEN -x ELSE x

Range(s) == {s[i] : i \in 1..Len(s)}

SeqsUpTo(S, n) == UNION {[1..k -> S] : k \in 0..n}

\* ------------------------------------------------------------ sharding
\* The filter with the 1-based position in place of the 0-based index
\* (InShardOneBased), then the filter as written:
\* allImages.filter((_, index) => index % TASK_COUNT === TASK_INDEX);
\* index is 0-based, sequence positions are 1-based.
InShardOneBased(position, taskIndex, taskCount) ==
    (position % taskCount) = taskIndex

\* A filter that also keeps the sources of the lower-numbered tasks.
InShardCumulative(position, taskIndex, taskCount) ==
    ((position - 1) % taskCount) <= taskIndex

InShard(position, taskIndex, taskCount) ==
    ((position - 1) % taskCount) = taskIndex

RECURSIVE FilterFrom(_, _, _, _)
FilterFrom(all, p, taskIndex, taskCount) ==
    IF p > Len(all) THEN <<>>
    ELSE (IF InShard(p, taskIndex, taskCount) THEN <<all[p]>> ELSE <<>>)
         \o FilterFrom(all, p + 1, taskIndex, taskCount)

Shard(all, taskIndex, taskCount) == FilterFrom(all, 1, taskIndex, taskCount)

\* The pending lists the backend may return: n distinct ids, in ascending or
\* descending id order.
PendingLists ==
    UNION {{[i \in 1..n |-> 10 + i], [i \in 1..n |-> 11 + n - i]} : n \in 0..MaxBatch}

\* ------------------------------------------------------------ geometry
\* The classification with an inclusive threshold (<= 0.05).
determineOrientationInclusive(width, height) ==
    IF 20 * Abs(width - height) <= height THEN "square"
    ELSE IF width > height THEN "landscape" ELSE "portrait"

\* determineOrientation: |w/h - 1| < 0.05  <=>  20 * |w - h| < h
determineOrientation(width, height) ==
    IF 20 * Abs(width - height) < height THEN "square"
    ELSE IF width > height THEN "landscape" ELSE "portrait"

\* A crop percentage is the rational 100 * num / den, kept as <<num, den>>.
RatLess(a, b) == a[1] * b[2] < b[1] * a[2]

\* The crop percentage without the 0.001 tolerance: zero for equal ratios only.
calculateCropPercentageExact(sw, sh, tw, th) ==
    IF sw * th = tw * sh THEN <<0, 1>>
    ELSE IF sw * th > tw * sh
         THEN <<th * sw - tw * sh, th * sw>>
         ELSE <<tw * sh - th * sw, tw * sh>>

\* The crop percentage of the source taken at its own size, not scaled to fill
\* the target: (sourceWidth - targetWidth) / sourceWidth, or the same in height.
calculateCropPercentageUnscaled(sw, sh, tw, th) ==
    IF 1000 * Abs(sw * th - tw * sh) < sh * th THEN <<0, 1>>
    ELSE IF sw * th > tw * sh
         THEN <<Abs(sw - tw), sw>>
         ELSE <<Abs(sh - th), sh>>

\* The cropped length taken as a share of the target instead of the scaled
\* source: croppedWidth / targetWidth, or the same in height.
calculateCropPercentageOfTarget(sw, sh, tw, th) ==
    IF 1000 * Abs(sw * th - tw * sh) < sh * th THEN <<0, 1>>
    ELSE IF sw * th > tw * sh
         THEN <<th * sw - tw * sh, tw * sh>>
         ELSE <<tw * sh - th * sw, th * sw>>

\* calculateCropPercentage, in exact rational arithmetic:
\*   sourceRatio = sw/sh, targetRatio = tw/th
\*   |sourceRatio - targetRatio| < 0.001  <=>  1000 * |sw*th - tw*sh| < sh*th
calculateCropPercentage(sw, sh, tw, th) ==
    IF 1000 * Abs(sw * th - tw * sh) < sh * th THEN <<0, 1>>
    ELSE IF sw * th > tw * sh
         THEN <<th * sw - tw * sh, th * sw>>   \* (usedWidth - tw) / usedWidth
         ELSE <<tw * sh - th * sw, tw * sh>>   \* (usedHeight - th) / usedHeight

\* An aspect-ratio bound is a rational <<num, den>>; den = 0 stands for undefined.
NoRatio == <<0, 0>>

\* A lower bound that also rejects a ratio equal to the bound.
BelowMinOrEqual(w, h, layout) ==
    layout.min[2] # 0 /\ w * layout.min[2] <= layout.min[1] * h

\* layout.minAspectRatio !== undefined && imageRatio < layout.minAspectRatio
BelowMin(w, h, layout) ==
    layout.min[2] # 0 /\ w * layout.min[2] < layout.min[1] * h

AboveMax(w, h, layout) ==
    layout.max[2] # 0 /\ w * layout.max[2] > layout.max[1] * h

\* A candidate that records the single type whatever the layout's type is.
CandidateAsSingle(w, h, layout) ==
    [layoutType |-> "single", width |-> layout.width, height |-> layout.height,
     cropPercentage |-> calculateCropPercentage(w, h, layout.width, layout.height)]

\* eligible.push({ layoutType: layout.type, width, height, cropPercentage })
Candidate(w, h, layout) ==
    [layoutType |-> layout.type, width |-> layout.width, height |-> layout.height,
     cropPercentage |-> calculateCropPercentage(w, h, layout.width, layout.height)]

\* An insertion that puts a candidate ahead of the candidates of equal cost.
RECURSIVE InsertSortedUnstable(_, _)
InsertSortedUnstable(c, sorted) ==
    IF sorted = <<>> THEN <<c>>
    ELSE IF ~RatLess(Head(sorted).cropPercentage, c.cropPercentage)
         THEN <<c>> \o sorted
         ELSE <<Head(sorted)>> \o InsertSortedUnstable(c, Tail(sorted))

\* eligible.sort((a, b) => a.cropPercentage - b.cropPercentage): a stable sort.
RECURSIVE InsertSorted(_, _)
InsertSorted(c, sorted) ==
    IF sorted = <<>> THEN <<c>>
    ELSE IF RatLess(c.cropPercentage, Head(sorted).cropPercentage)
         THEN <<c>> \o sorted
         ELSE <<Head(sorted)>> \o InsertSorted(c, Tail(sorted))

RECURSIVE SortByCrop(_)
SortByCrop(cands) ==
    IF cands = <<>> THEN <<>>
    ELSE InsertSorted(cands[Len(cands)], SortByCrop(SubSeq(cands, 1, Len(cands) - 1)))

RECURSIVE EligibleFrom(_, _, _, _)
EligibleFrom(w, h, items, i) ==
    IF i > Len(items) THEN <<>>
    ELSE (IF BelowMin(w, h, items[i]) \/ AboveMax(w, h, items[i])
          THEN <<>> ELSE <<Candidate(w, h, items[i])>>)
         \o EligibleFrom(w, h, items, i + 1)

evaluateImageLayouts(imageWidth, imageHeight, layouts) ==
    IF layouts.kind # "array" \/ Len(layouts.items) = 0 THEN <<>>
    ELSE SortByCrop(EligibleFrom(imageWidth, imageHeight, layouts.items, 1))

\* device.layouts && device.layouts.length > 0
HasLayouts(device) ==
    device.layouts.kind = "array" /\ Len(device.layouts.items) > 0

\* ------------------------------------------------------------- inputs
\* Pixel dimensions are written in units of 10 pixels (192 x 108 stands for
\* 1920 x 1080): ratios, and with them orientation and crop percentage, are
\* unchanged, and the products stay within TLC's integers.
Layout(t, w, h, mn, mx) ==
    [type |-> t, width |-> w, height |-> h, min |-> mn, max |-> mx]

Device(w, h, o, kind, items) ==
    [width |-> w, height |-> h, orientation |-> o,
     layouts |-> [kind |-> kind, items |-> items]]

\* Devices as the backend's start response lists them (no layouts).
PlainDevices ==
    {Device(192, 108, "landscape", "none", <<>>),
     Device(108, 192, "portrait", "none", <<>>)}

\* A 1920 x 1080 device whose only layout is single, without ratio bounds.
SingleOnlyDevice ==
    Device(192, 108, "landscape", "array",
           <<Layout("single", 192, 108, NoRatio, NoRatio)>>)

\* A square device with both pair layouts ahead of single: a square source
\* costs the two pairs the same.
SquareDevice ==
    Device(100, 100, "square", "array",
           <<Layout("pair-vertical", 100, 50, NoRatio, NoRatio),
             Layout("pair-horizontal", 50, 100, NoRatio, NoRatio),
             Layout("single", 100, 100, NoRatio, NoRatio)>>)

\* Devices a caller may hand to processSourceV2.
LayoutDevices ==
    {SingleOnlyDevice, SquareDevice,
     Device(192, 108, "landscape", "none", <<>>),
     Device(108, 192, "portrait", "array", <<>>),
     Device(192, 108, "landscape", "array",
            <<Layout("pair-horizontal", 95, 108, NoRatio, <<1, 1>>),
              Layout("single", 192, 108, <<1, 1>>, NoRatio)>>),
     Device(108, 192, "portrait", "array",
            <<Layout("pair-vertical", 108, 95, NoRatio, NoRatio),
              Layout("single", 108, 192, NoRatio, NoRatio)>>)}

\* sharp's metadata: width x height; 0 stands for a missing dimension.
SourceDims == {<<192, 108>>, <<50, 100>>, <<100, 100>>, <<0, 108>>}

Contents == 1..NContents

\* Arguments of the direct calls: every source size up to MaxSide, against the
\* source's own size and a few target sizes (31 x 32 is within the 0.001
\* tolerance of a 32 x 33 source without having its ratio).
Sides == 1..MaxSide

TargetDims == {<<192, 108>>, <<108, 192>>, <<31, 32>>, <<20, 21>>}

\* SHA-256 over the small content set: a deterministic, injective digest.
calculateHash(buffer) == 64 * buffer + 1

\* ------------------------------------------------------- storage paths
\* sharp's metadata.format: read from the bytes themselves, so a function of
\* the content ("" stands for undefined).
MetadataFormat(content) ==
    CASE content % 3 = 1 -> "jpeg"
      [] content % 3 = 2 -> "png"
      [] OTHER -> ""

\* const ext = metadata.format || "jpg";
Ext(format) == IF format = "" THEN "jpg" ELSE format

\* images/originals/${blobHash}.${ext}
OriginalPath(hash, ext) ==
    [dir |-> "images/originals", layout |-> "", w |-> 0, h |-> 0, name |-> hash,
     ext |-> ext]

\* A layout variant stored without its layout type in the path.
LayoutVariantPathFlat(layoutType, w, h, hash) ==
    [dir |-> "processed", layout |-> "", w |-> w, h |-> h, name |-> hash,
     ext |-> "jpg"]

\* processed/${layoutType}/${width}x${height}/${blobHash}.jpg
LayoutVariantPath(layoutType, w, h, hash) ==
    [dir |-> "processed", layout |-> layoutType, w |-> w, h |-> h, name |-> hash,
     ext |-> "jpg"]

\* processed/${width}x${height}/${blobHash}.jpg
LegacyVariantPath(w, h, hash) ==
    [dir |-> "processed", layout |-> "", w |-> w, h |-> h, name |-> hash,
     ext |-> "jpg"]

\* processed/thumbnails/${imageId}.jpg
ThumbnailPath(imageId) ==
    [dir |-> "processed/thumbnails", layout |-> "", w |-> 0, h |-> 0, name |-> imageId,
     ext |-> "jpg"]

\* processed/${device.name}/${imageId}.jpg ; the device stands for its name
V1DevicePath(device, imageId) ==
    [dir |-> "processed", layout |-> device.orientation,
     w |-> device.width, h |-> device.height, name |-> imageId, ext |-> "jpg"]

\* -------------------------------------------------------------- state
VARIABLES
    entry,          \* which entry point runs
    pc,             \* position in the program
    cfgBucket,      \* GCS_BUCKET_NAME is set
    cfgUrl,         \* BACKEND_API_URL is set
    cfgTarget,      \* TARGET_FILE_ID is set (job)
    cfgIndex,       \* CLOUD_RUN_TASK_INDEX is set (shard)
    cfgCount,       \* CLOUD_RUN_TASK_COUNT is set (shard)
    TASK_INDEX,     \* CLOUD_RUN_TASK_INDEX
    TASK_COUNT,     \* CLOUD_RUN_TASK_COUNT
    schedAttempt,   \* the scheduler's 0-based counter (env var or header)
    bodyOk,         \* handler: the request body parses as JSON
    hasId,          \* handler: the body carries imageId
    srcW,           \* calc: sourceWidth / width argument
    srcH,           \* calc: sourceHeight / height argument
    dstW,           \* calc: targetWidth argument
    dstH,           \* calc: targetHeight argument
    calc,           \* calc: the values the direct calls returned
    attempt,        \* the attempt number the entry point computed
    allImages,      \* shard: fetched pending list
    myImages,       \* shard: this task's subset
    idx,            \* shard: 1-based position in myImages
    processed,      \* shard: counter
    failed,         \* shard: counter
    attempted,      \* shard: ids whose loop iteration has begun, in order
    fetched,        \* shard: fetchPendingImages returned a list
    exitCode,       \* process exit status (-1 while running)
    httpStatus,     \* handler response status (0 while running)
    cur,            \* id of the source being processed
    registered,     \* the registration call for cur has completed successfully
    devices,        \* device list targeted for cur
    calls,          \* backend requests issued for cur, in order
    nTerminal,      \* invocations of reportMaxRetriesFailed for cur
    nTransient,     \* invocations of reportTransientFailure / reportFailure for cur
    caught,         \* processing of cur threw into the entry point's catch
    renders,        \* resize renders started for cur
    uploads,        \* storage paths written for cur, in order
    dIdx,           \* 1-based position in devices
    results,        \* processImage (v1): results pushed so far
    sidecar,        \* processImage (v1): metadata sidecar written (<<FALSE>> or <<TRUE, results>>)
    buffer,         \* processSourceV2: downloaded content (0 before download)
    blobHash,       \* processSourceV2: fingerprint
    checkedHash,    \* processSourceV2: argument of the issued existence check
    exists,         \* processSourceV2: "unknown" | "true" | "false"
    dims,           \* processSourceV2: <<width, height>> from metadata
    eligible,       \* processSourceV2: eligible layouts of the current device
    lIdx,           \* processSourceV2: 1-based position in eligible
    variants,       \* processSourceV2: variants pushed so far
    tries,          \* processSourceV2: every variant attempt with its outcome
    result,         \* processSourceV2: returned value
    wpc,            \* race: each worker's position in processSourceV2
    wbuf,           \* race: each worker's downloaded content (0 before download)
    wexists,        \* race: each worker's existence-check answer
    wrote,          \* race: the worker has uploaded the original
    rendered,       \* race: the worker has generated the variants
    known,          \* race: fingerprints the backend answers 2xx for
    reportThrew,    \* shard, handler: the catch block's failure report threw
    fleetFetched,   \* fleet: the task instance has fetched the pending list
    fleetAll,       \* fleet: the list each task instance fetched
    fleetMine       \* fleet: the subset each task instance keeps

vars == <<entry, pc, cfgBucket, cfgUrl, cfgTarget, cfgIndex, cfgCount,
          TASK_INDEX, TASK_COUNT, schedAttempt, bodyOk, hasId,
          srcW, srcH, dstW, dstH, calc, attempt, allImages, myImages, idx,
          processed, failed, attempted, fetched, exitCode, httpStatus, cur,
          registered, devices, calls, nTerminal, nTransient, caught, renders, uploads, dIdx,
          results, sidecar, buffer, blobHash, checkedHash, exists, dims,
          eligible, lIdx, variants, tries, result,
          wpc, wbuf, wexists, wrote, rendered, known, reportThrew,
          fleetFetched, fleetAll, fleetMine>>

envVars == <<entry, cfgBucket, cfgUrl, cfgTarget, cfgIndex, cfgCount,
             TASK_INDEX, TASK_COUNT, schedAttempt, bodyOk, hasId,
             srcW, srcH, dstW, dstH>>

shardVars == <<allImages, myImages, idx, processed, failed, attempted, fetched>>

v1Vars == <<results, sidecar>>

v2Vars == <<buffer, blobHash, checkedHash, exists, dims, eligible, lIdx,
            variants, tries, result>>

reportVars == <<calls, nTerminal, nTransient, caught>>

raceVars == <<wpc, wbuf, wexists, wrote, rendered, known>>

Workers == 1..NWorkers

fleetVars == <<fleetFetched, fleetAll, fleetMine>>

\* CLOUD_RUN_TASK_INDEX of the instances of an execution of FleetCount tasks.
FleetTasks == 0..(FleetCount - 1)

NoCalc ==
    [orientation |-> "", cropPercentage |-> <<>>, scaledCrop |-> <<>>]

NoResult ==
    [status |-> "none", blobHash |-> NoHash, blobData |-> <<0, 0>>, variants |-> <<>>]

Init ==
    /\ entry \in Entries
    /\ pc = "start"
    /\ cfgBucket \in (IF entry \in {"shard", "handler", "job"} THEN BOOLEAN ELSE {TRUE})
    /\ cfgUrl \in (IF entry \in {"shard", "handler", "job"} THEN BOOLEAN ELSE {TRUE})
    /\ cfgTarget \in (IF entry = "job" THEN BOOLEAN ELSE {TRUE})
    /\ cfgIndex \in (IF entry = "shard" THEN BOOLEAN ELSE {TRUE})
    /\ cfgCount \in (IF entry = "shard" THEN BOOLEAN ELSE {TRUE})
    \* an unset task count reads as 1 and an unset task index as 0
    /\ TASK_COUNT \in (IF entry = "shard" /\ cfgCount THEN 1..MaxTasks
                       ELSE {DefaultTaskCount})
    /\ TASK_INDEX \in (IF cfgIndex THEN 0..(TASK_COUNT - 1) ELSE {DefaultTaskIndex})
    /\ schedAttempt \in (CASE entry = "handler" -> {NoHeader} \cup 0..MaxSched
                           [] entry \in {"shard", "job"} -> 0..MaxSched
                           [] OTHER -> {0})
    /\ bodyOk \in (IF entry = "handler" THEN BOOLEAN ELSE {TRUE})
    /\ hasId \in (IF entry = "handler" THEN BOOLEAN ELSE {TRUE})
    /\ srcW \in (IF entry = "calc" THEN Sides ELSE {1})
    /\ srcH \in (IF entry = "calc" THEN Sides ELSE {1})
    /\ \E t \in (IF entry = "calc" THEN TargetDims \cup {<<srcW, srcH>>} ELSE {<<1, 1>>}) :
           dstW = t[1] /\ dstH = t[2]
    /\ calc = NoCalc
    /\ attempt = 0
    /\ allImages = <<>>
    /\ myImages = <<>>
    /\ idx = 1
    /\ processed = 0
    /\ failed = 0
    /\ attempted = <<>>
    /\ fetched = FALSE
    /\ exitCode = -1
    /\ httpStatus = 0
    /\ cur = 0
    /\ registered = FALSE
    /\ devices = <<>>
    /\ calls = <<>>
    /\ nTerminal = 0
    /\ nTransient = 0
    /\ caught = FALSE
    /\ renders = 0
    /\ uploads = <<>>
    /\ dIdx = 1
    /\ results = <<>>
    /\ sidecar = <<FALSE>>
    /\ buffer = 0
    /\ blobHash = NoHash
    /\ checkedHash = NoHash
    /\ exists = "unknown"
    /\ dims = <<0, 0>>
    /\ eligible = <<>>
    /\ lIdx = 1
    /\ variants = <<>>
    /\ tries = <<>>
    /\ result = NoResult
    /\ reportThrew = FALSE
    /\ fleetFetched = [t \in FleetTasks |-> FALSE]
    /\ fleetAll = [t \in FleetTasks |-> <<>>]
    /\ fleetMine = [t \in FleetTasks |-> <<>>]
    /\ wpc = [w \in Workers |-> "w_download"]
    /\ wbuf = [w \in Workers |-> 0]
    /\ wexists = [w \in Workers |-> "unknown"]
    /\ wrote = [w \in Workers |-> FALSE]
    /\ rendered = [w \in Workers |-> FALSE]
    /\ known \in (IF entry = "race"
                  THEN SUBSET {calculateHash(b) : b \in Contents} ELSE {{}})

Call(op, id, n) == [op |-> op, id |-> id, attempt |-> n]

\* Where control goes when the processing of cur throws out of processImage /
\* processSourceV2, and where it goes when it returns.
ThrowPc ==
    CASE entry = "shard" -> "s_catch"
      [] entry = "handler" -> "h_catch"
      [] entry = "job" -> "j_catch"
      [] OTHER -> "threw"

ReturnPc ==
    CASE entry = "shard" -> "s_success"
      [] entry = "handler" -> "h_success"
      [] entry = "job" -> "j_success"
      [] OTHER -> "returned"

\* Per-source state as it is when the processing of a source begins.
FreshSource ==
    /\ registered' = FALSE
    /\ devices' = <<>>
    /\ calls' = <<>>
    /\ nTerminal' = 0
    /\ nTransient' = 0
    /\ caught' = FALSE
    /\ renders' = 0
    /\ uploads' = <<>>
    /\ dIdx' = 1
    /\ results' = <<>>
    /\ sidecar' = <<FALSE>>

\* ------------------------------------------ main.ts: sharded coordinator
\* main(): the configuration checks before the try block; a throw here is an
\* unhandled rejection and the process exits non-zero.
ShardStart ==
    /\ entry = "shard" /\ pc = "start"
    /\ attempt' = schedAttempt                 \* TASK_ATTEMPT, as parsed
    /\ IF cfgBucket /\ cfgUrl
       THEN pc' = "s_fetch" /\ exitCode' = exitCode
       ELSE pc' = "exit" /\ exitCode' = 1
    /\ UNCHANGED <<envVars, fleetVars, calc, raceVars, reportThrew, shardVars, httpStatus, cur, registered, devices,
                   reportVars, renders, uploads, dIdx, v1Vars, v2Vars>>

\* fetchPendingImages() and the positional filter; a failed fetch is the
\* outer catch: Deno.exit(1).
ShardFetch ==
    /\ entry = "shard" /\ pc = "s_fetch"
    /\ \/ /\ \E list \in PendingLists :
               /\ allImages' = list
               /\ myImages' = Shard(list, TASK_INDEX, TASK_COUNT)
          /\ fetched' = TRUE
          /\ processed' = 0
          /\ failed' = 0
          /\ pc' = "s_loop"
          /\ UNCHANGED <<idx, attempted, exitCode>>
       \/ /\ pc' = "exit"
          /\ exitCode' = 1
          /\ UNCHANGED shardVars
    /\ UNCHANGED <<envVars, fleetVars, calc, raceVars, reportThrew, attempt, httpStatus, cur, registered, devices,
                   reportVars, renders, uploads, dIdx, v1Vars, v2Vars>>

\* for (const image of myImages): the next iteration begins.
ShardNextImage ==
    /\ entry = "shard" /\ pc = "s_loop"
    /\ idx <= Len(myImages)
    /\ cur' = myImages[idx]
    /\ attempted' = Append(attempted, myImages[idx])
    /\ FreshSource
    /\ reportThrew' = FALSE
    /\ pc' = "s_register"
    /\ UNCHANGED <<envVars, fleetVars, calc, raceVars, attempt, allImages, myImages, idx, processed, failed,
                   fetched, exitCode, httpStatus, v2Vars>>

\* registerAttempt(image.id): POST .../start {attempt: TASK_ATTEMPT}; throws on a
\* network error or a non-2xx response.
ShardRegister ==
    /\ entry = "shard" /\ pc = "s_register"
    /\ calls' = Append(calls, Call("start", cur, attempt))
    /\ \/ \E ds \in SeqsUpTo(PlainDevices, MaxDevices) :
               /\ devices' = ds
               /\ registered' = TRUE
               /\ pc' = "p1_download"
       \/ /\ pc' = "s_catch"
          /\ UNCHANGED <<devices, registered>>
    /\ UNCHANGED <<envVars, fleetVars, calc, raceVars, reportThrew, attempt, shardVars, exitCode, httpStatus, cur,
                   nTerminal, nTransient, caught, renders, uploads, dIdx,
                   v1Vars, v2Vars>>

\* processed++ after processImage returned.
ShardSuccess ==
    /\ entry = "shard" /\ pc = "s_success"
    /\ processed' = processed + 1
    /\ idx' = idx + 1
    /\ pc' = "s_loop"
    /\ UNCHANGED <<envVars, fleetVars, calc, raceVars, reportThrew, attempt, allImages, myImages, failed, attempted,
                   fetched, exitCode, httpStatus, cur, registered, devices, reportVars,
                   renders, uploads, dIdx, v1Vars, v2Vars>>

\* A variant of the catch block without the inner try: a throwing
\* reportFailure escapes to the outer catch.
ShardCatchUnprotected ==
    /\ entry = "shard" /\ pc = "s_catch"
    /\ failed' = failed + 1
    /\ caught' = TRUE
    /\ nTransient' = nTransient + 1
    /\ calls' = Append(calls, Call("PATCH failed", cur, attempt))
    /\ \/ /\ idx' = idx + 1
          /\ pc' = "s_loop"
          /\ exitCode' = exitCode
          /\ reportThrew' = FALSE
       \/ /\ idx' = idx
          /\ pc' = "exit"
          /\ exitCode' = 1
          /\ reportThrew' = TRUE
    /\ UNCHANGED <<envVars, fleetVars, calc, raceVars, attempt, allImages, myImages, processed, attempted,
                   fetched, httpStatus, cur, registered, devices, nTerminal, renders,
                   uploads, dIdx, v1Vars, v2Vars>>

\* A variant of the catch block that counts the failure after the report, so
\* that a throwing report leaves the failure uncounted.
ShardCatchCountsAfterReport ==
    /\ entry = "shard" /\ pc = "s_catch"
    /\ caught' = TRUE
    /\ nTransient' = nTransient + 1
    /\ calls' = Append(calls, Call("PATCH failed", cur, attempt))
    /\ \E reportThrows \in BOOLEAN :
           /\ reportThrew' = reportThrows
           /\ failed' = IF reportThrows THEN failed ELSE failed + 1
           /\ idx' = idx + 1
           /\ pc' = "s_loop"
    /\ UNCHANGED <<envVars, fleetVars, calc, raceVars, attempt, allImages, myImages, processed, attempted,
                   fetched, exitCode, httpStatus, cur, registered, devices, nTerminal,
                   renders, uploads, dIdx, v1Vars, v2Vars>>

\* The per-source catch block: failed++, then reportFailure(image.id, message)
\* (PATCH .../failed {error, attempt: TASK_ATTEMPT}) inside its own try; whether
\* the report throws or not, the loop goes on.
ShardCatch ==
    /\ entry = "shard" /\ pc = "s_catch"
    /\ failed' = failed + 1
    /\ caught' = TRUE
    /\ nTransient' = nTransient + 1
    /\ calls' = Append(calls, Call("PATCH failed", cur, attempt))
    /\ \E reportThrows \in BOOLEAN :
           /\ reportThrew' = reportThrows
           /\ idx' = idx + 1
           /\ pc' = "s_loop"
    /\ UNCHANGED <<envVars, fleetVars, calc, raceVars, attempt, allImages, myImages, processed, attempted,
                   fetched, exitCode, httpStatus, cur, registered, devices, nTerminal,
                   renders, uploads, dIdx, v1Vars, v2Vars>>

\* The exit status the coordinator ends with once the loop is over.
ShardExitCodeStrict(nFailed, taskAttempt) ==
    IF nFailed > 0 /\ taskAttempt + 1 >= MAX_RETRIES THEN 1 ELSE 0

\* if (failed > 0) Deno.exit(1); otherwise main() returns and the process ends 0.
ShardExitCode(nFailed, taskAttempt) ==
    IF nFailed > 0 THEN 1 ELSE 0

ShardComplete ==
    /\ entry = "shard" /\ pc = "s_loop"
    /\ idx > Len(myImages)
    /\ exitCode' = ShardExitCode(failed, attempt)
    /\ pc' = "exit"
    /\ UNCHANGED <<envVars, fleetVars, calc, raceVars, reportThrew, attempt, shardVars, httpStatus, cur, registered,
                   devices, reportVars, renders, uploads, dIdx, v1Vars, v2Vars>>

\* ------------------------------------------- processor.ts: processImage
\* Every step of processImage either completes or throws to the caller.
\* downloadImageFromGCS
P1Download ==
    /\ pc = "p1_download"
    /\ \E ok \in BOOLEAN : pc' = IF ok THEN "p1_colors" ELSE ThrowPc
    /\ UNCHANGED <<envVars, fleetVars, calc, raceVars, reportThrew, attempt, shardVars, exitCode, httpStatus, cur,
                   registered, devices, reportVars, renders, uploads, dIdx,
                   v1Vars, v2Vars>>

\* extractColors (throws when the image has no opaque pixel)
P1Colors ==
    /\ pc = "p1_colors"
    /\ \E ok \in BOOLEAN : pc' = IF ok THEN "p1_thumb" ELSE ThrowPc
    /\ UNCHANGED <<envVars, fleetVars, calc, raceVars, reportThrew, attempt, shardVars, exitCode, httpStatus, cur,
                   registered, devices, reportVars, renders, uploads, dIdx,
                   v1Vars, v2Vars>>

\* The 200x200 thumbnail: render, then upload.
P1Thumbnail ==
    /\ pc = "p1_thumb"
    /\ renders' = renders + 1
    /\ \/ /\ uploads' = Append(uploads, ThumbnailPath(cur))
          /\ pc' = "p1_device"
       \/ /\ uploads' = uploads
          /\ pc' = ThrowPc
    /\ UNCHANGED <<envVars, fleetVars, calc, raceVars, reportThrew, attempt, shardVars, exitCode, httpStatus, cur,
                   registered, devices, reportVars, dIdx, v1Vars, v2Vars>>

\* resizeImageForDevice for devices[dIdx]
P1Resize ==
    /\ pc = "p1_device"
    /\ dIdx <= Len(devices)
    /\ renders' = renders + 1
    /\ \E ok \in BOOLEAN : pc' = IF ok THEN "p1_upload" ELSE ThrowPc
    /\ UNCHANGED <<envVars, fleetVars, calc, raceVars, reportThrew, attempt, shardVars, exitCode, httpStatus, cur,
                   registered, devices, reportVars, uploads, dIdx, v1Vars, v2Vars>>

\* uploadBufferToGCS, then results.push
P1Upload ==
    /\ pc = "p1_upload"
    /\ \/ /\ uploads' = Append(uploads, V1DevicePath(devices[dIdx], cur))
          /\ results' = Append(results, [imageId |-> cur, device |-> devices[dIdx],
                                         filePath |-> V1DevicePath(devices[dIdx], cur)])
          /\ dIdx' = dIdx + 1
          /\ pc' = "p1_device"
       \/ /\ pc' = ThrowPc
          /\ UNCHANGED <<uploads, results, dIdx>>
    /\ UNCHANGED <<envVars, fleetVars, calc, raceVars, reportThrew, attempt, shardVars, exitCode, httpStatus, cur,
                   registered, devices, reportVars, renders, sidecar, v2Vars>>

\* A variant that goes on to the submission without having written the
\* sidecar.
P1MetadataSkipped ==
    /\ pc = "p1_device"
    /\ dIdx > Len(devices)
    /\ sidecar' = sidecar
    /\ \E ok \in BOOLEAN : pc' = IF ok THEN "p1_submit" ELSE ThrowPc
    /\ UNCHANGED <<envVars, fleetVars, calc, raceVars, reportThrew, attempt, shardVars, exitCode, httpStatus, cur,
                   registered, devices, reportVars, renders, uploads, dIdx,
                   results, v2Vars>>

\* saveMetadataToGCS once every device is done
P1Metadata ==
    /\ pc = "p1_device"
    /\ dIdx > Len(devices)
    /\ \/ /\ sidecar' = <<TRUE, results>>
          /\ pc' = "p1_submit"
       \/ /\ sidecar' = sidecar
          /\ pc' = ThrowPc
    /\ UNCHANGED <<envVars, fleetVars, calc, raceVars, reportThrew, attempt, shardVars, exitCode, httpStatus, cur,
                   registered, devices, reportVars, renders, uploads, dIdx,
                   results, v2Vars>>

\* submitProcessedImages: POST /api/processed-images; throws on a non-2xx answer
P1Submit ==
    /\ pc = "p1_submit"
    /\ calls' = Append(calls, Call("processed-images", cur, Len(results)))
    /\ \E ok \in BOOLEAN : pc' = IF ok THEN ReturnPc ELSE ThrowPc
    /\ UNCHANGED <<envVars, fleetVars, calc, raceVars, reportThrew, attempt, shardVars, exitCode, httpStatus, cur,
                   registered, devices, nTerminal, nTransient, caught, renders,
                   uploads, dIdx, v1Vars, v2Vars>>

\* ------------------------------------- processor.ts: POST /process handler
\* const attempt = attemptHeader ? parseInt(attemptHeader) + 1 : 1;  (try block)
HandlerAttempt(header) == IF header = NoHeader THEN 1 ELSE header + 1

\* The catch block computing the attempt without the 1-based adjustment.
HandlerCatchAttemptRaw(header) == IF header = NoHeader THEN 1 ELSE header

\* The same expression, evaluated again in the catch block.
HandlerCatchAttempt(header) == IF header = NoHeader THEN 1 ELSE header + 1

\* if (attempt >= MAX_RETRIES)
HandlerExhausted(n) == n >= MAX_RETRIES

\* The try block up to the attempt number: body, imageId and configuration.
HandlerStart ==
    /\ entry = "handler" /\ pc = "start"
    /\ IF ~bodyOk
       THEN /\ pc' = "h_catch"
            /\ UNCHANGED <<httpStatus, cur, attempt>>
       ELSE IF ~hasId
       THEN /\ pc' = "responded"
            /\ httpStatus' = 400
            /\ UNCHANGED <<cur, attempt>>
       ELSE IF ~cfgBucket \/ ~cfgUrl
       THEN /\ pc' = "responded"
            /\ httpStatus' = 500
            /\ UNCHANGED <<cur, attempt>>
       ELSE /\ pc' = "h_fetch"
            /\ cur' = TargetId
            /\ attempt' = HandlerAttempt(schedAttempt)
            /\ httpStatus' = httpStatus
    /\ UNCHANGED <<envVars, fleetVars, calc, raceVars, reportThrew, shardVars, exitCode, registered, devices, reportVars,
                   renders, uploads, dIdx, v1Vars, v2Vars>>

\* fetchImageDetails: throws on a failed fetch or when the image is not pending.
HandlerFetchDetails ==
    /\ entry = "handler" /\ pc = "h_fetch"
    /\ calls' = Append(calls, Call("pending", cur, 0))
    /\ \E ok \in BOOLEAN : pc' = IF ok THEN "h_register" ELSE "h_catch"
    /\ UNCHANGED <<envVars, fleetVars, calc, raceVars, reportThrew, attempt, shardVars, exitCode, httpStatus, cur,
                   registered, devices, nTerminal, nTransient, caught, renders,
                   uploads, dIdx, v1Vars, v2Vars>>

\* registerAttempt(imageId, attempt): throws on a network error or non-2xx.
HandlerRegister ==
    /\ entry = "handler" /\ pc = "h_register"
    /\ calls' = Append(calls, Call("start", cur, attempt))
    /\ \/ \E ds \in SeqsUpTo(PlainDevices, MaxDevices) :
               /\ devices' = ds
               /\ registered' = TRUE
               /\ pc' = "p1_download"
       \/ /\ pc' = "h_catch"
          /\ UNCHANGED <<devices, registered>>
    /\ UNCHANGED <<envVars, fleetVars, calc, raceVars, reportThrew, attempt, shardVars, exitCode, httpStatus, cur,
                   nTerminal, nTransient, caught, renders, uploads, dIdx,
                   v1Vars, v2Vars>>

HandlerSuccess ==
    /\ entry = "handler" /\ pc = "h_success"
    /\ httpStatus' = 200
    /\ pc' = "responded"
    /\ UNCHANGED <<envVars, fleetVars, calc, raceVars, reportThrew, attempt, shardVars, exitCode, cur, registered,
                   devices, reportVars, renders, uploads, dIdx, v1Vars, v2Vars>>

\* A status that is 200 on an exhausted attempt whether or not the report
\* threw.
HandlerFailureStatusIgnoresThrow(exhausted, reportThrows) ==
    IF exhausted THEN 200 ELSE 500

\* The status the catch block answers with: 200 after the terminal report,
\* 500 after the transient report, 500 from the inner catch when the report
\* threw.
HandlerFailureStatus(exhausted, reportThrows) ==
    IF reportThrows THEN 500 ELSE IF exhausted THEN 200 ELSE 500

\* The catch block: the body is read again (throwing again when it did not
\* parse), the attempt is computed again, and one of the two reports is made;
\* a throw inside is answered 500.
HandlerCatch ==
    /\ entry = "handler" /\ pc = "h_catch"
    /\ caught' = TRUE
    /\ pc' = "responded"
    /\ IF ~bodyOk
       THEN /\ httpStatus' = 500
            /\ UNCHANGED <<calls, nTerminal, nTransient, reportThrew>>
       ELSE IF HandlerExhausted(HandlerCatchAttempt(schedAttempt))
       THEN /\ nTerminal' = nTerminal + 1
            /\ calls' = Append(calls, Call("POST failed", TargetId,
                                           HandlerCatchAttempt(schedAttempt)))
            /\ \E reportThrows \in BOOLEAN :
                   /\ reportThrew' = reportThrows
                   /\ httpStatus' = HandlerFailureStatus(TRUE, reportThrows)
            /\ UNCHANGED nTransient
       ELSE /\ nTransient' = nTransient + 1
            /\ calls' = Append(calls, Call("PATCH failed", TargetId,
                                           HandlerCatchAttempt(schedAttempt)))
            /\ \E reportThrows \in BOOLEAN :
                   /\ reportThrew' = reportThrows
                   /\ httpStatus' = HandlerFailureStatus(FALSE, reportThrows)
            /\ UNCHANGED nTerminal
    /\ UNCHANGED <<envVars, fleetVars, calc, raceVars, attempt, shardVars, exitCode, cur, registered,
                   devices, renders, uploads, dIdx, v1Vars, v2Vars>>

\* ------------------------------------------------- main-v2.ts: the job
JobExhaustedStrict(n) == n > MAX_RETRIES

\* if (TASK_ATTEMPT >= MAX_RETRIES)
JobExhausted(n) == n >= MAX_RETRIES

\* layouts: { monotych: true }: an object, which has no length
JobDevice(d) == [d EXCEPT !.layouts = [kind |-> "object", items |-> <<>>]]

JobDevices(ds) == [i \in 1..Len(ds) |-> JobDevice(ds[i])]

\* TASK_ATTEMPT = parseInt(CLOUD_RUN_TASK_ATTEMPT || "0") + 1 and the checks
\* before the try block (a throw there is an unhandled rejection).
JobStart ==
    /\ entry = "job" /\ pc = "start"
    /\ attempt' = schedAttempt + 1
    /\ IF cfgTarget /\ cfgBucket
       THEN pc' = "j_find" /\ cur' = TargetId /\ exitCode' = exitCode
       ELSE pc' = "exit" /\ cur' = cur /\ exitCode' = 1
    /\ UNCHANGED <<envVars, fleetVars, calc, raceVars, reportThrew, shardVars, httpStatus, registered, devices,
                   reportVars, renders, uploads, dIdx, v1Vars, v2Vars>>

\* findOriginalInGCS never throws; a missing original is thrown by main.
JobFindOriginal ==
    /\ entry = "job" /\ pc = "j_find"
    /\ \E found \in BOOLEAN : pc' = IF found THEN "j_details" ELSE "j_catch"
    /\ UNCHANGED <<envVars, fleetVars, calc, raceVars, reportThrew, attempt, shardVars, exitCode, httpStatus, cur,
                   registered, devices, reportVars, renders, uploads, dIdx,
                   v1Vars, v2Vars>>

\* fetchImageDetails never throws; its answer is not used.
JobFetchDetails ==
    /\ entry = "job" /\ pc = "j_details"
    /\ calls' = IF cfgUrl THEN Append(calls, Call("pending", cur, 0)) ELSE calls
    /\ pc' = "j_register"
    /\ UNCHANGED <<envVars, fleetVars, calc, raceVars, reportThrew, attempt, shardVars, exitCode, httpStatus, cur,
                   registered, devices, nTerminal, nTransient, caught, renders,
                   uploads, dIdx, v1Vars, v2Vars>>

\* A variant of the registration step that falls back to a default device list
\* when the registration did not succeed.
JobRegisterFallback ==
    /\ entry = "job" /\ pc = "j_register"
    /\ calls' = IF cfgUrl THEN Append(calls, Call("start", cur, attempt)) ELSE calls
    /\ \/ /\ cfgUrl
          /\ \E ds \in SeqsUpTo(PlainDevices, MaxDevices) :
                 /\ registered' = TRUE
                 /\ devices' = JobDevices(ds)
                 /\ IF Len(ds) = 0
                    THEN pc' = "exit" /\ exitCode' = 0
                    ELSE pc' = "v2_download" /\ exitCode' = exitCode
       \/ /\ registered' = registered
          /\ \E d \in PlainDevices : devices' = JobDevices(<<d>>)
          /\ pc' = "v2_download"
          /\ exitCode' = exitCode
    /\ UNCHANGED <<envVars, fleetVars, calc, raceVars, reportThrew, attempt, shardVars, httpStatus, cur, nTerminal,
                   nTransient, caught, renders, uploads, dIdx, v1Vars, v2Vars>>

\* registerAttempt(imageId, TASK_ATTEMPT, imageInfo) returns null without a
\* backend URL, on a non-2xx answer and on a network error; main returns when
\* there is no device to target.
JobRegister ==
    /\ entry = "job" /\ pc = "j_register"
    /\ calls' = IF cfgUrl THEN Append(calls, Call("start", cur, attempt)) ELSE calls
    /\ \/ /\ cfgUrl
          /\ \E ds \in SeqsUpTo(PlainDevices, MaxDevices) :
                 /\ registered' = TRUE
                 /\ devices' = JobDevices(ds)
                 /\ IF Len(ds) = 0
                    THEN pc' = "exit" /\ exitCode' = 0
                    ELSE pc' = "v2_download" /\ exitCode' = exitCode
       \/ /\ registered' = registered
          /\ devices' = <<>>
          /\ pc' = "exit"
          /\ exitCode' = 0
    /\ UNCHANGED <<envVars, fleetVars, calc, raceVars, reportThrew, attempt, shardVars, httpStatus, cur, nTerminal,
                   nTransient, caught, renders, uploads, dIdx, v1Vars, v2Vars>>

\* processSourceV2 returned; its result is not used. main returns.
JobSuccess ==
    /\ entry = "job" /\ pc = "j_success"
    /\ exitCode' = 0
    /\ pc' = "exit"
    /\ UNCHANGED <<envVars, fleetVars, calc, raceVars, reportThrew, attempt, shardVars, httpStatus, cur, registered,
                   devices, reportVars, renders, uploads, dIdx, v1Vars, v2Vars>>

\* The catch block: one of the two reports, inside its own try, then
\* Deno.exit(1). Without a backend URL the report throws before its request.
JobCatch ==
    /\ entry = "job" /\ pc = "j_catch"
    /\ caught' = TRUE
    /\ IF JobExhausted(attempt)
       THEN /\ nTerminal' = nTerminal + 1
            /\ calls' = IF cfgUrl
                        THEN Append(calls, Call("POST failed", cur, attempt))
                        ELSE calls
            /\ UNCHANGED nTransient
       ELSE /\ nTransient' = nTransient + 1
            /\ calls' = IF cfgUrl
                        THEN Append(calls, Call("PATCH failed", cur, attempt))
                        ELSE calls
            /\ UNCHANGED nTerminal
    /\ exitCode' = 1
    /\ pc' = "exit"
    /\ UNCHANGED <<envVars, fleetVars, calc, raceVars, reportThrew, attempt, shardVars, httpStatus, cur, registered,
                   devices, renders, uploads, dIdx, v1Vars, v2Vars>>

\* --------------------------------- processor-v2.ts: processSourceV2
\* A layout variant recorded with its width and height exchanged.
LayoutVariantSwapped(layout, hash) ==
    [width |-> layout.height, height |-> layout.width,
     orientation |-> determineOrientation(layout.width, layout.height),
     layout_type |-> layout.layoutType,
     storage_path |-> LayoutVariantPath(layout.layoutType, layout.width,
                                        layout.height, hash)]

\* The rendered buffer's length (file_size) is the image library's and is left out.
LayoutVariant(layout, hash) ==
    [width |-> layout.width, height |-> layout.height,
     orientation |-> determineOrientation(layout.width, layout.height),
     layout_type |-> layout.layoutType,
     storage_path |-> LayoutVariantPath(layout.layoutType, layout.width,
                                        layout.height, hash)]

LegacyVariant(device, hash) ==
    [width |-> device.width, height |-> device.height,
     orientation |-> device.orientation,
     layout_type |-> "single",
     storage_path |-> LegacyVariantPath(device.width, device.height, hash)]

\* part_000's variant carries no layout_type ("" stands for the absent field).
OldVariant(device, hash) ==
    [width |-> device.width, height |-> device.height,
     orientation |-> device.orientation,
     layout_type |-> "",
     storage_path |-> LegacyVariantPath(device.width, device.height, hash)]

Try(d, l, ok, v) == [dev |-> d, lay |-> l, ok |-> ok, variant |-> v]

\* return { status: "duplicate", blobHash, variants: [] }
DuplicateResult(hash) ==
    [status |-> "duplicate", blobHash |-> hash, blobData |-> <<0, 0>>, variants |-> <<>>]

ProcessedResult(hash, d, vs) ==
    [status |-> "processed", blobHash |-> hash, blobData |-> d, variants |-> vs]

\* A direct call of processSourceV2 with the caller's device list.
V2Call ==
    /\ entry \in {"v2", "v2old"} /\ pc = "start"
    /\ \E ds \in SeqsUpTo(IF entry = "v2" THEN LayoutDevices ELSE PlainDevices,
                          MaxDevices) : devices' = ds
    /\ cur' = TargetId
    /\ pc' = "v2_download"
    /\ UNCHANGED <<envVars, fleetVars, calc, raceVars, reportThrew, attempt, shardVars, exitCode, httpStatus, registered,
                   reportVars, renders, uploads, dIdx, v1Vars, v2Vars>>

\* Step 1: downloadSource
V2Download ==
    /\ pc = "v2_download"
    /\ \/ /\ \E b \in Contents : buffer' = b
          /\ pc' = "v2_hash"
       \/ /\ buffer' = buffer
          /\ pc' = ThrowPc
    /\ UNCHANGED <<envVars, fleetVars, calc, raceVars, reportThrew, attempt, shardVars, exitCode, httpStatus, cur,
                   registered, devices, reportVars, renders, uploads, dIdx,
                   v1Vars, blobHash, checkedHash, exists, dims, eligible, lIdx,
                   variants, tries, result>>

\* A variant of step 2 whose fingerprint also depends on the attempt number.
V2HashSalted ==
    /\ pc = "v2_hash"
    /\ blobHash' = calculateHash(buffer) + attempt
    /\ pc' = "v2_check"
    /\ UNCHANGED <<envVars, fleetVars, calc, raceVars, reportThrew, attempt, shardVars, exitCode, httpStatus, cur,
                   registered, devices, reportVars, renders, uploads, dIdx,
                   v1Vars, buffer, checkedHash, exists, dims, eligible, lIdx,
                   variants, tries, result>>

\* Step 2: calculateHash
V2Hash ==
    /\ pc = "v2_hash"
    /\ blobHash' = calculateHash(buffer)
    /\ pc' = "v2_check"
    /\ UNCHANGED <<envVars, fleetVars, calc, raceVars, reportThrew, attempt, shardVars, exitCode, httpStatus, cur,
                   registered, devices, reportVars, renders, uploads, dIdx,
                   v1Vars, buffer, checkedHash, exists, dims, eligible, lIdx,
                   variants, tries, result>>

\* A variant of step 3 without the early return: a positive existence check
\* falls through to the processing steps.
V2CheckBlobFallsThrough ==
    /\ pc = "v2_check"
    /\ checkedHash' = blobHash
    /\ calls' = IF entry = "job" /\ cfgUrl
                THEN Append(calls, Call("blobs", blobHash, 0)) ELSE calls
    /\ \/ /\ entry = "job" => cfgUrl
          /\ exists' = "true"
          /\ result' = result
          /\ pc' = "v2_meta"
       \/ /\ exists' = "false"
          /\ result' = result
          /\ pc' = "v2_meta"
       \/ /\ entry # "job"
          /\ exists' = exists
          /\ result' = result
          /\ pc' = ThrowPc
    /\ UNCHANGED <<envVars, fleetVars, calc, raceVars, reportThrew, attempt, shardVars, exitCode, httpStatus, cur,
                   registered, devices, nTerminal, nTransient, caught, renders,
                   uploads, dIdx, v1Vars, buffer, blobHash, dims, eligible, lIdx,
                   variants, tries>>

\* A variant of step 3 that runs after the upload of the original instead of
\* before it.
V2CheckBlobAfterOriginal ==
    /\ pc = "v2_check"
    /\ checkedHash' = blobHash
    /\ uploads' = Append(uploads, OriginalPath(blobHash, Ext(MetadataFormat(buffer))))
    /\ calls' = IF entry = "job" /\ cfgUrl
                THEN Append(calls, Call("blobs", blobHash, 0)) ELSE calls
    /\ \/ /\ entry = "job" => cfgUrl
          /\ exists' = "true"
          /\ result' = DuplicateResult(blobHash)
          /\ pc' = ReturnPc
       \/ /\ exists' = "false"
          /\ result' = result
          /\ pc' = "v2_meta"
       \/ /\ entry # "job"
          /\ exists' = exists
          /\ result' = result
          /\ pc' = ThrowPc
    /\ UNCHANGED <<envVars, fleetVars, calc, raceVars, reportThrew, attempt, shardVars, exitCode, httpStatus, cur,
                   registered, devices, nTerminal, nTransient, caught, renders,
                   dIdx, v1Vars, buffer, blobHash, dims, eligible, lIdx,
                   variants, tries>>

\* A variant of step 3 in which the job's callback lets an error of the
\* request escape.
V2CheckBlobFailsClosed ==
    /\ pc = "v2_check"
    /\ checkedHash' = blobHash
    /\ calls' = IF entry = "job" /\ cfgUrl
                THEN Append(calls, Call("blobs", blobHash, 0)) ELSE calls
    /\ \/ /\ entry = "job" => cfgUrl
          /\ exists' = "true"
          /\ result' = DuplicateResult(blobHash)
          /\ pc' = ReturnPc
       \/ /\ exists' = "false"
          /\ result' = result
          /\ pc' = "v2_meta"
       \/ /\ exists' = exists
          /\ result' = result
          /\ pc' = ThrowPc
    /\ UNCHANGED <<envVars, fleetVars, calc, raceVars, reportThrew, attempt, shardVars, exitCode, httpStatus, cur,
                   registered, devices, nTerminal, nTransient, caught, renders,
                   uploads, dIdx, v1Vars, buffer, blobHash, dims, eligible, lIdx,
                   variants, tries>>

\* Step 3: checkBlobExists(blobHash). The job's callback answers false without a
\* backend URL, on a non-2xx answer and on a network error; a direct caller's
\* callback may also throw.
V2CheckBlob ==
    /\ pc = "v2_check"
    /\ checkedHash' = blobHash
    /\ calls' = IF entry = "job" /\ cfgUrl
                THEN Append(calls, Call("blobs", blobHash, 0)) ELSE calls
    /\ \/ /\ entry = "job" => cfgUrl
          /\ exists' = "true"
          /\ result' = DuplicateResult(blobHash)
          /\ pc' = ReturnPc
       \/ /\ exists' = "false"
          /\ result' = result
          /\ pc' = "v2_meta"
       \/ /\ entry # "job"
          /\ exists' = exists
          /\ result' = result
          /\ pc' = ThrowPc
    /\ UNCHANGED <<envVars, fleetVars, calc, raceVars, reportThrew, attempt, shardVars, exitCode, httpStatus, cur,
                   registered, devices, nTerminal, nTransient, caught, renders,
                   uploads, dIdx, v1Vars, buffer, blobHash, dims, eligible, lIdx,
                   variants, tries>>

\* A variant of step 4 without the check of the dimensions.
V2MetadataUnchecked ==
    /\ pc = "v2_meta"
    /\ \E d \in SourceDims : pc' = "v2_original" /\ dims' = d
    /\ UNCHANGED <<envVars, fleetVars, calc, raceVars, reportThrew, attempt, shardVars, exitCode, httpStatus, cur,
                   registered, devices, reportVars, renders, uploads, dIdx,
                   v1Vars, buffer, blobHash, checkedHash, exists, eligible, lIdx,
                   variants, tries, result>>

\* Step 4: sharp(originalBuffer).metadata(); throws when a dimension is missing.
V2Metadata ==
    /\ pc = "v2_meta"
    /\ \E d \in SourceDims :
           IF d[1] = 0 \/ d[2] = 0
           THEN pc' = ThrowPc /\ dims' = dims
           ELSE pc' = "v2_original" /\ dims' = d
    /\ UNCHANGED <<envVars, fleetVars, calc, raceVars, reportThrew, attempt, shardVars, exitCode, httpStatus, cur,
                   registered, devices, reportVars, renders, uploads, dIdx,
                   v1Vars, buffer, blobHash, checkedHash, exists, eligible, lIdx,
                   variants, tries, result>>

\* A variant of step 5 in which a failed upload of the original is passed
\* over and the run goes on to the variants.
V2UploadOriginalBestEffort ==
    /\ pc = "v2_original"
    /\ \/ /\ uploads' = Append(uploads, OriginalPath(blobHash,
                                                        Ext(MetadataFormat(buffer))))
          /\ pc' = "v2_colors"
       \/ /\ uploads' = uploads
          /\ pc' = "v2_colors"
    /\ UNCHANGED <<envVars, fleetVars, calc, raceVars, reportThrew, attempt, shardVars, exitCode, httpStatus, cur,
                   registered, devices, reportVars, renders, dIdx, v1Vars, v2Vars>>

\* Step 5: upload the original to images/originals/${blobHash}.${ext}
V2UploadOriginal ==
    /\ pc = "v2_original"
    /\ \/ /\ uploads' = Append(uploads, OriginalPath(blobHash,
                                                        Ext(MetadataFormat(buffer))))
          /\ pc' = "v2_colors"
       \/ /\ uploads' = uploads
          /\ pc' = ThrowPc
    /\ UNCHANGED <<envVars, fleetVars, calc, raceVars, reportThrew, attempt, shardVars, exitCode, httpStatus, cur,
                   registered, devices, reportVars, renders, dIdx, v1Vars, v2Vars>>

\* Step 6: extractColors
V2Colors ==
    /\ pc = "v2_colors"
    /\ \E ok \in BOOLEAN : pc' = IF ok THEN "v2_device" ELSE ThrowPc
    /\ UNCHANGED <<envVars, fleetVars, calc, raceVars, reportThrew, attempt, shardVars, exitCode, httpStatus, cur,
                   registered, devices, reportVars, renders, uploads, dIdx,
                   v1Vars, v2Vars>>

\* A variant of step 7 that applies a crop threshold to the legacy branch: a
\* device without layouts is skipped when fitting the source to it crops more
\* than half.
V2NextDeviceFiltersLegacy ==
    /\ entry # "v2old" /\ pc = "v2_device"
    /\ dIdx <= Len(devices)
    /\ IF HasLayouts(devices[dIdx])
       THEN /\ eligible' = evaluateImageLayouts(dims[1], dims[2], devices[dIdx].layouts)
            /\ pc' = "v2_layout"
            /\ dIdx' = dIdx
       ELSE /\ eligible' = <<>>
            /\ IF RatLess(<<1, 2>>, calculateCropPercentage(dims[1], dims[2],
                                       devices[dIdx].width, devices[dIdx].height))
               THEN pc' = "v2_device" /\ dIdx' = dIdx + 1
               ELSE pc' = "v2_legacy" /\ dIdx' = dIdx
    /\ lIdx' = 1
    /\ UNCHANGED <<envVars, fleetVars, calc, raceVars, reportThrew, attempt, shardVars, exitCode, httpStatus, cur,
                   registered, devices, reportVars, renders, uploads,
                   v1Vars, buffer, blobHash, checkedHash, exists, dims, variants,
                   tries, result>>

\* Step 7, for (const device of deviceDimensions): the layouts branch or the
\* legacy branch.
V2NextDevice ==
    /\ entry # "v2old" /\ pc = "v2_device"
    /\ dIdx <= Len(devices)
    /\ IF HasLayouts(devices[dIdx])
       THEN /\ eligible' = evaluateImageLayouts(dims[1], dims[2], devices[dIdx].layouts)
            /\ pc' = "v2_layout"
       ELSE /\ eligible' = <<>>
            /\ pc' = "v2_legacy"
    /\ lIdx' = 1
    /\ UNCHANGED <<envVars, fleetVars, calc, raceVars, reportThrew, attempt, shardVars, exitCode, httpStatus, cur,
                   registered, devices, reportVars, renders, uploads, dIdx,
                   v1Vars, buffer, blobHash, checkedHash, exists, dims, variants,
                   tries, result>>

\* A variant of the layout render whose failure is not caught per layout.
V2LayoutRenderAborts ==
    /\ pc = "v2_layout"
    /\ lIdx <= Len(eligible)
    /\ renders' = renders + 1
    /\ \/ /\ pc' = "v2_layout_up"
          /\ UNCHANGED <<tries, lIdx>>
       \/ /\ tries' = Append(tries, Try(dIdx, lIdx, FALSE,
                                        LayoutVariant(eligible[lIdx], blobHash)))
          /\ lIdx' = lIdx
          /\ pc' = ThrowPc
    /\ UNCHANGED <<envVars, fleetVars, calc, raceVars, reportThrew, attempt, shardVars, exitCode, httpStatus, cur,
                   registered, devices, reportVars, uploads, dIdx, v1Vars, buffer,
                   blobHash, checkedHash, exists, dims, eligible, variants, result>>

\* sharp(...).resize(layout.width, layout.height, cover/entropy) for
\* eligible[lIdx]; a failure is caught and the next layout follows.
V2LayoutRender ==
    /\ pc = "v2_layout"
    /\ lIdx <= Len(eligible)
    /\ renders' = renders + 1
    /\ \/ /\ pc' = "v2_layout_up"
          /\ UNCHANGED <<tries, lIdx>>
       \/ /\ tries' = Append(tries, Try(dIdx, lIdx, FALSE,
                                        LayoutVariant(eligible[lIdx], blobHash)))
          /\ lIdx' = lIdx + 1
          /\ pc' = "v2_layout"
    /\ UNCHANGED <<envVars, fleetVars, calc, raceVars, reportThrew, attempt, shardVars, exitCode, httpStatus, cur,
                   registered, devices, reportVars, uploads, dIdx, v1Vars, buffer,
                   blobHash, checkedHash, exists, dims, eligible, variants, result>>

\* A variant of the layout upload that pushes the variant before the upload
\* has completed.
V2LayoutUploadPushFirst ==
    /\ pc = "v2_layout_up"
    /\ variants' = Append(variants, LayoutVariant(eligible[lIdx], blobHash))
    /\ \/ /\ uploads' = Append(uploads, LayoutVariant(eligible[lIdx], blobHash).storage_path)
          /\ tries' = Append(tries, Try(dIdx, lIdx, TRUE,
                                        LayoutVariant(eligible[lIdx], blobHash)))
       \/ /\ uploads' = uploads
          /\ tries' = Append(tries, Try(dIdx, lIdx, FALSE,
                                        LayoutVariant(eligible[lIdx], blobHash)))
    /\ lIdx' = lIdx + 1
    /\ pc' = "v2_layout"
    /\ UNCHANGED <<envVars, fleetVars, calc, raceVars, reportThrew, attempt, shardVars, exitCode, httpStatus, cur,
                   registered, devices, reportVars, renders, dIdx, v1Vars, buffer,
                   blobHash, checkedHash, exists, dims, eligible, result>>

\* uploadToGCS(resizedBuffer, variantPath), then variants.push; a failed
\* upload is caught and nothing is pushed.
V2LayoutUpload ==
    /\ pc = "v2_layout_up"
    /\ \/ /\ uploads' = Append(uploads, LayoutVariant(eligible[lIdx], blobHash).storage_path)
          /\ variants' = Append(variants, LayoutVariant(eligible[lIdx], blobHash))
          /\ tries' = Append(tries, Try(dIdx, lIdx, TRUE,
                                        LayoutVariant(eligible[lIdx], blobHash)))
       \/ /\ tries' = Append(tries, Try(dIdx, lIdx, FALSE,
                                        LayoutVariant(eligible[lIdx], blobHash)))
          /\ UNCHANGED <<uploads, variants>>
    /\ lIdx' = lIdx + 1
    /\ pc' = "v2_layout"
    /\ UNCHANGED <<envVars, fleetVars, calc, raceVars, reportThrew, attempt, shardVars, exitCode, httpStatus, cur,
                   registered, devices, reportVars, renders, dIdx, v1Vars, buffer,
                   blobHash, checkedHash, exists, dims, eligible, result>>

\* The eligible layouts of the device are exhausted: the next device.
V2LayoutsDone ==
    /\ pc = "v2_layout"
    /\ lIdx > Len(eligible)
    /\ dIdx' = dIdx + 1
    /\ pc' = "v2_device"
    /\ UNCHANGED <<envVars, fleetVars, calc, raceVars, reportThrew, attempt, shardVars, exitCode, httpStatus, cur,
                   registered, devices, reportVars, renders, uploads, v1Vars,
                   v2Vars>>

\* Legacy branch: resize to the device's own width x height.
V2LegacyRender ==
    /\ pc = "v2_legacy"
    /\ renders' = renders + 1
    /\ \/ /\ pc' = "v2_legacy_up"
          /\ UNCHANGED <<tries, dIdx>>
       \/ /\ tries' = Append(tries, Try(dIdx, 0, FALSE,
                                        LegacyVariant(devices[dIdx], blobHash)))
          /\ dIdx' = dIdx + 1
          /\ pc' = "v2_device"
    /\ UNCHANGED <<envVars, fleetVars, calc, raceVars, reportThrew, attempt, shardVars, exitCode, httpStatus, cur,
                   registered, devices, reportVars, uploads, v1Vars, buffer,
                   blobHash, checkedHash, exists, dims, eligible, lIdx, variants,
                   result>>

\* Legacy branch: upload, then variants.push.
V2LegacyUpload ==
    /\ pc = "v2_legacy_up"
    /\ \/ /\ uploads' = Append(uploads, LegacyVariant(devices[dIdx], blobHash).storage_path)
          /\ variants' = Append(variants, LegacyVariant(devices[dIdx], blobHash))
          /\ tries' = Append(tries, Try(dIdx, 0, TRUE,
                                        LegacyVariant(devices[dIdx], blobHash)))
       \/ /\ tries' = Append(tries, Try(dIdx, 0, FALSE,
                                        LegacyVariant(devices[dIdx], blobHash)))
          /\ UNCHANGED <<uploads, variants>>
    /\ dIdx' = dIdx + 1
    /\ pc' = "v2_device"
    /\ UNCHANGED <<envVars, fleetVars, calc, raceVars, reportThrew, attempt, shardVars, exitCode, httpStatus, cur,
                   registered, devices, reportVars, renders, v1Vars, buffer,
                   blobHash, checkedHash, exists, dims, eligible, lIdx, result>>

\* Step 8: return { status: "processed", blobHash, blobData, colorData, variants }
V2Return ==
    /\ pc = "v2_device"
    /\ dIdx > Len(devices)
    /\ result' = ProcessedResult(blobHash, dims, variants)
    /\ pc' = ReturnPc
    /\ UNCHANGED <<envVars, fleetVars, calc, raceVars, reportThrew, attempt, shardVars, exitCode, httpStatus, cur,
                   registered, devices, reportVars, renders, uploads, dIdx,
                   v1Vars, buffer, blobHash, checkedHash, exists, dims, eligible,
                   lIdx, variants, tries>>

\* ---------------------------- unnamed/part_000: the older device loop
\* sharp(...).resize(device.width, device.height, cover/entropy)
OldRender ==
    /\ entry = "v2old" /\ pc = "v2_device"
    /\ dIdx <= Len(devices)
    /\ renders' = renders + 1
    /\ \/ /\ pc' = "old_up"
          /\ UNCHANGED <<tries, dIdx>>
       \/ /\ tries' = Append(tries, Try(dIdx, 0, FALSE,
                                        OldVariant(devices[dIdx], blobHash)))
          /\ dIdx' = dIdx + 1
          /\ pc' = "v2_device"
    /\ UNCHANGED <<envVars, fleetVars, calc, raceVars, reportThrew, attempt, shardVars, exitCode, httpStatus, cur,
                   registered, devices, reportVars, uploads, v1Vars, buffer,
                   blobHash, checkedHash, exists, dims, eligible, lIdx, variants,
                   result>>

\* uploadToGCS, then variants.push
OldUpload ==
    /\ entry = "v2old" /\ pc = "old_up"
    /\ \/ /\ uploads' = Append(uploads, OldVariant(devices[dIdx], blobHash).storage_path)
          /\ variants' = Append(variants, OldVariant(devices[dIdx], blobHash))
          /\ tries' = Append(tries, Try(dIdx, 0, TRUE,
                                        OldVariant(devices[dIdx], blobHash)))
       \/ /\ tries' = Append(tries, Try(dIdx, 0, FALSE,
                                        OldVariant(devices[dIdx], blobHash)))
          /\ UNCHANGED <<uploads, variants>>
    /\ dIdx' = dIdx + 1
    /\ pc' = "v2_device"
    /\ UNCHANGED <<envVars, fleetVars, calc, raceVars, reportThrew, attempt, shardVars, exitCode, httpStatus, cur,
                   registered, devices, reportVars, renders, v1Vars, buffer,
                   blobHash, checkedHash, exists, dims, eligible, lIdx, result>>

\* ------------------------- processor-v2.ts: direct calls of the pure functions
\* determineOrientation(srcW, srcH)
CalcOrientation ==
    /\ entry = "calc" /\ pc = "start"
    /\ calc' = [calc EXCEPT !.orientation = determineOrientation(srcW, srcH)]
    /\ pc' = "c_crop"
    /\ UNCHANGED <<envVars, fleetVars, raceVars, reportThrew, attempt, shardVars, exitCode, httpStatus, cur,
                   registered, devices, reportVars, renders, uploads, dIdx,
                   v1Vars, v2Vars>>

\* calculateCropPercentage(srcW, srcH, dstW, dstH)
CalcCrop ==
    /\ entry = "calc" /\ pc = "c_crop"
    /\ calc' = [calc EXCEPT !.cropPercentage =
                                calculateCropPercentage(srcW, srcH, dstW, dstH)]
    /\ pc' = "c_scaled"
    /\ UNCHANGED <<envVars, fleetVars, raceVars, reportThrew, attempt, shardVars, exitCode, httpStatus, cur,
                   registered, devices, reportVars, renders, uploads, dIdx,
                   v1Vars, v2Vars>>

\* calculateCropPercentage(2 * srcW, 2 * srcH, dstW, dstH): the same call for
\* the source scaled by two.
CalcCropScaled ==
    /\ entry = "calc" /\ pc = "c_scaled"
    /\ calc' = [calc EXCEPT !.scaledCrop =
                                calculateCropPercentage(2 * srcW, 2 * srcH, dstW, dstH)]
    /\ pc' = "returned"
    /\ UNCHANGED <<envVars, fleetVars, raceVars, reportThrew, attempt, shardVars, exitCode, httpStatus, cur,
                   registered, devices, reportVars, renders, uploads, dIdx,
                   v1Vars, v2Vars>>

\* ------------- processor-v2.ts / main-v2.ts: concurrent processSourceV2 runs
\* Each worker runs steps 1 to 7 of processSourceV2 behind the job's
\* checkBlobExists; the workers interleave at every await. The backend is
\* taken to answer 2xx for a fingerprint from the moment its original is
\* stored, the earliest it could know of it.
\* Steps 1 and 2: downloadSource and calculateHash (local to the worker).
RaceDownload(w) ==
    /\ entry = "race" /\ wpc[w] = "w_download"
    /\ \/ \E b \in Contents :
              /\ wbuf' = [wbuf EXCEPT ![w] = b]
              /\ wpc' = [wpc EXCEPT ![w] = "w_check"]
       \/ /\ wbuf' = wbuf
          /\ wpc' = [wpc EXCEPT ![w] = "w_threw"]
    /\ UNCHANGED <<envVars, fleetVars, calc, reportThrew, wexists, wrote, rendered, known, pc, attempt,
                   shardVars, exitCode, httpStatus, cur, registered, devices,
                   reportVars, renders, uploads, dIdx, v1Vars, v2Vars>>

\* Step 3: checkBlobExists(blobHash): GET /api/blobs/${hash}, true on a 2xx
\* answer, false on any other answer and on a network error; a true answer
\* returns the duplicate result.
RaceCheck(w) ==
    /\ entry = "race" /\ wpc[w] = "w_check"
    /\ \/ /\ calculateHash(wbuf[w]) \in known
          /\ wexists' = [wexists EXCEPT ![w] = "true"]
          /\ wpc' = [wpc EXCEPT ![w] = "w_duplicate"]
       \/ /\ calculateHash(wbuf[w]) \notin known
          /\ wexists' = [wexists EXCEPT ![w] = "false"]
          /\ wpc' = [wpc EXCEPT ![w] = "w_original"]
       \/ /\ wexists' = [wexists EXCEPT ![w] = "false"]   \* catch { return false }
          /\ wpc' = [wpc EXCEPT ![w] = "w_original"]
    /\ UNCHANGED <<envVars, fleetVars, calc, reportThrew, wbuf, wrote, rendered, known, pc, attempt,
                   shardVars, exitCode, httpStatus, cur, registered, devices,
                   reportVars, renders, uploads, dIdx, v1Vars, v2Vars>>

\* Steps 4 and 5: metadata, then the upload of the original.
RaceUploadOriginal(w) ==
    /\ entry = "race" /\ wpc[w] = "w_original"
    /\ \/ /\ wrote' = [wrote EXCEPT ![w] = TRUE]
          /\ known' = known \cup {calculateHash(wbuf[w])}
          /\ wpc' = [wpc EXCEPT ![w] = "w_variants"]
       \/ /\ wpc' = [wpc EXCEPT ![w] = "w_threw"]
          /\ UNCHANGED <<wrote, known>>
    /\ UNCHANGED <<envVars, fleetVars, calc, reportThrew, wbuf, wexists, rendered, pc, attempt,
                   shardVars, exitCode, httpStatus, cur, registered, devices,
                   reportVars, renders, uploads, dIdx, v1Vars, v2Vars>>

\* Steps 6 to 8: colors, the variants of every device, the processed result.
RaceVariants(w) ==
    /\ entry = "race" /\ wpc[w] = "w_variants"
    /\ \/ /\ rendered' = [rendered EXCEPT ![w] = TRUE]
          /\ wpc' = [wpc EXCEPT ![w] = "w_processed"]
       \/ /\ wpc' = [wpc EXCEPT ![w] = "w_threw"]   \* extractColors threw
          /\ UNCHANGED rendered
    /\ UNCHANGED <<envVars, fleetVars, calc, reportThrew, wbuf, wexists, wrote, known, pc, attempt,
                   shardVars, exitCode, httpStatus, cur, registered, devices,
                   reportVars, renders, uploads, dIdx, v1Vars, v2Vars>>

\* ------------------------- main.ts: the task instances of one execution
\* Each instance runs main on its own: it fetches the pending list itself and
\* keeps the positions of its own index. Nothing is exchanged between
\* instances, and the backend may answer each fetch with another list.
FleetFetch(t) ==
    /\ entry = "fleet" /\ ~fleetFetched[t]
    /\ \E list \in PendingLists :
           /\ fleetAll' = [fleetAll EXCEPT ![t] = list]
           /\ fleetMine' = [fleetMine EXCEPT ![t] = Shard(list, t, FleetCount)]
    /\ fleetFetched' = [fleetFetched EXCEPT ![t] = TRUE]
    /\ UNCHANGED <<envVars, calc, raceVars, reportThrew, pc, attempt, shardVars,
                   exitCode, httpStatus, cur, registered, devices, reportVars,
                   renders, uploads, dIdx, v1Vars, v2Vars>>

\* ------------------------------------------ the runtime scheduler's retry
\* A task that ended with a non-zero status without a terminal-failure report
\* is started again as a new process with CLOUD_RUN_TASK_ATTEMPT one higher:
\* the environment is the same and all program state is as at process start.
Reschedule ==
    /\ entry \in {"shard", "job"}
    /\ pc = "exit"
    /\ exitCode # 0
    /\ nTerminal = 0
    /\ schedAttempt < MaxSched
    /\ schedAttempt' = schedAttempt + 1
    /\ pc' = "start"
    /\ calc' = NoCalc
    /\ attempt' = 0
    /\ allImages' = <<>> /\ myImages' = <<>> /\ idx' = 1
    /\ processed' = 0 /\ failed' = 0 /\ attempted' = <<>> /\ fetched' = FALSE
    /\ exitCode' = -1 /\ httpStatus' = 0 /\ cur' = 0
    /\ registered' = FALSE /\ devices' = <<>>
    /\ calls' = <<>> /\ nTerminal' = 0 /\ nTransient' = 0 /\ caught' = FALSE
    /\ renders' = 0 /\ uploads' = <<>> /\ dIdx' = 1
    /\ results' = <<>> /\ sidecar' = <<FALSE>>
    /\ buffer' = 0 /\ blobHash' = NoHash /\ checkedHash' = NoHash
    /\ exists' = "unknown" /\ dims' = <<0, 0>> /\ eligible' = <<>> /\ lIdx' = 1
    /\ variants' = <<>> /\ tries' = <<>> /\ result' = NoResult
    /\ UNCHANGED <<entry, cfgBucket, cfgUrl, cfgTarget, cfgIndex, cfgCount,
                   TASK_INDEX, TASK_COUNT, bodyOk, hasId, srcW, srcH, dstW, dstH,
                   raceVars, fleetVars>>
    /\ reportThrew' = FALSE

\* ------------------------------------------------------- specification
Next ==
    \/ ShardStart \/ ShardFetch \/ ShardNextImage \/ ShardRegister
    \/ ShardSuccess \/ ShardCatch \/ ShardComplete
    \/ P1Download \/ P1Colors \/ P1Thumbnail \/ P1Resize \/ P1Upload
    \/ P1Metadata \/ P1Submit
    \/ HandlerStart \/ HandlerFetchDetails \/ HandlerRegister
    \/ HandlerSuccess \/ HandlerCatch
    \/ JobStart \/ JobFindOriginal \/ JobFetchDetails \/ JobRegister
    \/ JobSuccess \/ JobCatch
    \/ V2Call \/ V2Download \/ V2Hash \/ V2CheckBlob \/ V2Metadata
    \/ V2UploadOriginal \/ V2Colors \/ V2NextDevice \/ V2LayoutRender
    \/ V2LayoutUpload \/ V2LayoutsDone \/ V2LegacyRender \/ V2LegacyUpload
    \/ V2Return \/ OldRender \/ OldUpload
    \/ CalcOrientation \/ CalcCrop \/ CalcCropScaled
    \/ \E w \in Workers : RaceDownload(w)
    \/ \E w \in Workers : RaceCheck(w)
    \/ \E w \in Workers : RaceUploadOriginal(w)
    \/ \E w \in Workers : RaceVariants(w)
    \/ \E t \in FleetTasks : FleetFetch(t)
    \/ Reschedule

Spec == Init /\ [][Next]_vars

\* Every started process runs to its end and the scheduler does restart a task
\* it is due to restart.
LiveSpec == Init /\ [][Next]_vars /\ WF_vars(Next)

\* ---------------------------------------------------------------- claims
RECURSIVE SumShardLens(_, _, _)
SumShardLens(all, taskCount, t) ==
    IF t >= taskCount THEN 0
    ELSE Len(Shard(all, t, taskCount)) + SumShardLens(all, taskCount, t + 1)

\* C1: for the fetched batch and the shard count K = TASK_COUNT, the source at
\* 0-based position i is in the shard of task i mod K and in no other shard, the
\* shards of tasks 0..K-1 together hold as many sources as the batch, and this
\* task's subset is its own shard.
C1_ShardsPartitionBatch ==
    entry = "shard" =>
        /\ \A p \in 1..Len(allImages) :
               {t \in 0..(TASK_COUNT - 1) :
                    allImages[p] \in Range(Shard(allImages, t, TASK_COUNT))}
               = {(p - 1) % TASK_COUNT}
        /\ SumShardLens(allImages, TASK_COUNT, 0) = Len(allImages)
        /\ myImages = Shard(allImages, TASK_INDEX, TASK_COUNT)

C1_Witness ==
    /\ entry = "shard" /\ fetched
    /\ Len(allImages) >= 3
    /\ TASK_COUNT = 2
    /\ Len(myImages) >= 1
    /\ Len(myImages) < Len(allImages)

\* The processing of the identified source threw into the entry point's catch
\* block and the entry point has finished.
SingleSourceFailed ==
    /\ entry \in {"job", "handler"}
    /\ pc \in {"exit", "responded"}
    /\ caught
    /\ cur = TargetId

\* C2: in the job and in the /process handler, once the processing of the source
\* has thrown: on an attempt numbered >= MAX_RETRIES the terminal-failure report
\* was invoked exactly once and the transient one not at all; on an attempt
\* numbered < MAX_RETRIES the transient report was invoked exactly once and the
\* terminal one not at all.
C2_ReportMatchesAttempt ==
    SingleSourceFailed =>
        IF attempt >= MAX_RETRIES
        THEN nTerminal = 1 /\ nTransient = 0
        ELSE nTransient = 1 /\ nTerminal = 0

C2_Witness ==
    /\ SingleSourceFailed
    /\ entry = "handler"
    /\ attempt = MAX_RETRIES
    /\ nTerminal = 1
    /\ nTransient = 0

\* C3: whenever the existence check has answered true, processSourceV2 has
\* returned a result with status duplicate and an empty variants list, whatever
\* device list was supplied.
C3_DuplicateHasNoVariants ==
    exists = "true" =>
        /\ result.status = "duplicate"
        /\ result.variants = <<>>
        /\ result.blobHash = blobHash
        /\ pc \in {"returned", "j_success", "exit"}

C3_Witness ==
    /\ entry = "v2"
    /\ exists = "true"
    /\ pc = "returned"
    /\ Len(devices) >= 2
    /\ \E i \in 1..Len(devices) : HasLayouts(devices[i])

\* C4: when the job has ended after processSourceV2 returned a result (processed
\* or duplicate), a finalize report carrying the source id was sent to the
\* backend.
C4_FinalizeAfterExecute ==
    (entry = "job" /\ pc = "exit" /\ result.status \in {"processed", "duplicate"}) =>
        \E i \in 1..Len(calls) : calls[i].op = "finalize" /\ calls[i].id = cur

\* C5: in the sharded coordinator the sources whose iteration has begun are the
\* first sources of the shard, each once and in order, and when the run ends
\* every source of the shard has been attempted.
C5_EverySourceAttempted ==
    entry = "shard" =>
        /\ Len(attempted) <= Len(myImages)
        /\ attempted = SubSeq(myImages, 1, Len(attempted))
        /\ pc = "exit" => attempted = myImages

C5_Witness ==
    /\ entry = "shard" /\ pc = "exit"
    /\ Len(myImages) >= 2
    /\ attempted = myImages
    /\ failed >= 1
    /\ processed >= 1

\* C6 as claimed: the coordinator that handled at least one source ends with a
\* non-zero status exactly when a source failed on an attempt that exhausted the
\* retries (1-based attempt number >= MAX_RETRIES).
C6_ExitIffTerminalFailure ==
    (entry = "shard" /\ pc = "exit" /\ Len(attempted) >= 1) =>
        (exitCode # 0 <=> (failed > 0 /\ attempt + 1 >= MAX_RETRIES))

\* C6 as amended: the coordinator ends with a non-zero status exactly when at
\* least one source of its shard failed in this run, whether or not attempts
\* remain, or the run ended before its loop (configuration or fetch error).
C6_ExitIffAnyFailure ==
    (entry = "shard" /\ pc = "exit") =>
        (exitCode # 0 <=> (failed > 0 \/ ~fetched))

C6_Witness ==
    /\ entry = "shard" /\ pc = "exit" /\ fetched
    /\ failed > 0
    /\ attempt + 1 < MAX_RETRIES
    /\ exitCode = 1

\* C7: in the coordinator, the job and the handler, a render or an upload for the
\* current source has started only after the call registering (cur, attempt)
\* completed successfully.
C7_RegisterBeforeRender ==
    (entry \in {"shard", "job", "handler"} /\ (renders > 0 \/ uploads # <<>>)) =>
        /\ registered
        /\ \E i \in 1..Len(calls) : calls[i] = Call("start", cur, attempt)

C7_Witness ==
    /\ entry = "job"
    /\ registered
    /\ renders >= 2
    /\ Len(uploads) >= 2

FailureOps == {"PATCH failed", "POST failed"}

\* C8: the attempt number sent in the registration call of a source equals the
\* attempt number sent in the failure report of the same attempt.
C8_SameAttemptNumber ==
    \A i, j \in 1..Len(calls) :
        (calls[i].op = "start" /\ calls[j].op \in FailureOps /\ calls[i].id = calls[j].id)
            => calls[i].attempt = calls[j].attempt

C8_Witness ==
    /\ entry = "handler"
    /\ \E i, j \in 1..Len(calls) :
           /\ calls[i].op = "start"
           /\ calls[j].op = "POST failed"
           /\ calls[j].attempt = MAX_RETRIES

\* C9: in processSourceV2 the existence check is issued with the fingerprint of
\* the downloaded bytes, no render or upload starts unless the check answered
\* false, and every variant in the list has been rendered and its path written.
C9_StepsOrdered ==
    entry \in {"job", "v2", "v2old"} =>
        /\ (exists # "unknown" \/ checkedHash # NoHash) =>
               (buffer # 0 /\ blobHash = calculateHash(buffer) /\ checkedHash = blobHash)
        /\ (renders > 0 \/ uploads # <<>>) => exists = "false"
        /\ \A i \in 1..Len(variants) : variants[i].storage_path \in Range(uploads)
        /\ Len(variants) <= renders

C9_Witness ==
    /\ entry = "v2"
    /\ Len(variants) >= 2
    /\ \E k \in 1..Len(tries) : ~tries[k].ok
    /\ exists = "false"

\* The variant attempts processSourceV2 has to make, as <<device, layout>>
\* positions in order (layout 0: the device's own size).
RECURSIVE ExpectedTries(_)
ExpectedTries(d) ==
    IF d > Len(devices) THEN <<>>
    ELSE (IF entry # "v2old" /\ HasLayouts(devices[d])
          THEN [l \in 1..Len(evaluateImageLayouts(dims[1], dims[2], devices[d].layouts))
                    |-> <<d, l>>]
          ELSE << <<d, 0>> >>)
         \o ExpectedTries(d + 1)

RECURSIVE OkVariants(_)
OkVariants(ts) ==
    IF ts = <<>> THEN <<>>
    ELSE (IF Head(ts).ok THEN <<Head(ts).variant>> ELSE <<>>) \o OkVariants(Tail(ts))

\* C10: a failed render or upload of one variant never makes processSourceV2
\* throw, and when it returns, with status processed, every layout of every
\* device has been attempted and the variants list holds exactly the variants
\* whose render and upload succeeded, in order.
C10_PartialVariantsReturned ==
    entry \in {"job", "v2", "v2old"} =>
        /\ renders > 0 => (pc \notin {"threw", "j_catch"} /\ ~caught)
        /\ result.status = "processed" =>
               /\ [k \in 1..Len(tries) |-> <<tries[k].dev, tries[k].lay>>] = ExpectedTries(1)
               /\ result.variants = OkVariants(tries)

C10_Witness ==
    /\ entry = "v2"
    /\ result.status = "processed"
    /\ \E k, j \in 1..Len(tries) :
           /\ k < j
           /\ ~tries[k].ok
           /\ tries[j].ok
           /\ tries[k].dev = tries[j].dev
    /\ Len(result.variants) >= 1

\* A crop percentage above 50: 100 * num / den > 50.
OverHalf(c) == RatLess(<<1, 2>>, c)

\* The evaluator has answered for devices[dIdx] and its layouts are being rendered.
InLayoutLoop ==
    /\ entry \in {"job", "v2"}
    /\ pc \in {"v2_layout", "v2_layout_up"}

\* The 1-based position of a candidate's layout in the device's layout list.
LayoutPosition(items, c) ==
    CHOOSE p \in 1..Len(items) :
        /\ items[p].type = c.layoutType
        /\ items[p].width = c.width
        /\ items[p].height = c.height

\* C11: the evaluator's output holds no candidate whose crop cost against the
\* source dimensions is above 50 percent, no variant is attempted for a layout
\* costing more than 50 percent, and every layout within its ratio bounds whose
\* cost is at most 50 percent is in the output.
C11_CropThreshold ==
    /\ \A i \in 1..Len(eligible) : ~OverHalf(eligible[i].cropPercentage)
    /\ \A k \in 1..Len(tries) :
           tries[k].lay > 0 =>
               ~OverHalf(calculateCropPercentage(dims[1], dims[2],
                             tries[k].variant.width, tries[k].variant.height))
    /\ InLayoutLoop =>
           \A p \in 1..Len(devices[dIdx].layouts.items) :
               LET layout == devices[dIdx].layouts.items[p]
               IN (/\ ~BelowMin(dims[1], dims[2], layout)
                   /\ ~AboveMax(dims[1], dims[2], layout)
                   /\ ~OverHalf(calculateCropPercentage(dims[1], dims[2],
                                     layout.width, layout.height)))
                      => \E i \in 1..Len(eligible) :
                             LayoutPosition(devices[dIdx].layouts.items, eligible[i]) = p

\* C12: the list the evaluator returned for the current device is in order of
\* non-decreasing crop cost, and two candidates of equal cost are in the order
\* of their layouts in the device's layout list.
C12_SortedStable ==
    InLayoutLoop =>
        /\ eligible = evaluateImageLayouts(dims[1], dims[2], devices[dIdx].layouts)
        /\ \A i, j \in 1..Len(eligible) :
               i < j =>
                   /\ ~RatLess(eligible[j].cropPercentage, eligible[i].cropPercentage)
                   /\ ~RatLess(eligible[i].cropPercentage, eligible[j].cropPercentage)
                          => LayoutPosition(devices[dIdx].layouts.items, eligible[i])
                             < LayoutPosition(devices[dIdx].layouts.items, eligible[j])

C12_Witness ==
    /\ InLayoutLoop
    /\ Len(eligible) = 3
    /\ LayoutPosition(devices[dIdx].layouts.items, eligible[1]) = 3
    /\ RatLess(eligible[1].cropPercentage, eligible[2].cropPercentage)
    /\ ~RatLess(eligible[2].cropPercentage, eligible[3].cropPercentage)
    /\ ~RatLess(eligible[3].cropPercentage, eligible[2].cropPercentage)

\* C13: for every positive width and height, determineOrientation answers
\* square exactly when |w/h - 1| < 0.05, that is 19/20 < w/h < 21/20, and
\* otherwise landscape when w > h and portrait when w < h; at w/h = 21/20 it
\* answers landscape and at w/h = 19/20 portrait.
C13_OrientationThreshold ==
    (entry = "calc" /\ calc.orientation # "") =>
        /\ calc.orientation = "square"
               <=> (19 * srcH < 20 * srcW /\ 20 * srcW < 21 * srcH)
        /\ calc.orientation = "landscape"
               <=> (20 * srcW >= 21 * srcH /\ srcW > srcH)
        /\ calc.orientation = "portrait"
               <=> (20 * srcW <= 19 * srcH /\ srcW < srcH)
        /\ 20 * srcW = 21 * srcH => calc.orientation = "landscape"
        /\ 20 * srcW = 19 * srcH => calc.orientation = "portrait"

C13_Witness ==
    /\ entry = "calc"
    /\ srcW = 21 /\ srcH = 20
    /\ calc.orientation = "landscape"

\* C14: calculateCropPercentage(w, h, w, h) is 0, and the result is 0 whenever
\* the source ratio and the target ratio differ by less than 0.001.
C14_ZeroCropForEqualRatio ==
    (entry = "calc" /\ calc.cropPercentage # <<>>) =>
        /\ (dstW = srcW /\ dstH = srcH) => calc.cropPercentage[1] = 0
        /\ 1000 * Abs(srcW * dstH - dstW * srcH) < srcH * dstH
               => calc.cropPercentage[1] = 0

C14_Witness ==
    /\ entry = "calc"
    /\ srcW = 32 /\ srcH = 33 /\ dstW = 31 /\ dstH = 32
    /\ calc.cropPercentage # <<>>
    /\ calc.cropPercentage[1] = 0

\* C15: the crop percentage of a source against a target equals the crop
\* percentage of the source of twice the width and twice the height against
\* the same target.
C15_ScaleInvariant ==
    (entry = "calc" /\ calc.scaledCrop # <<>>) =>
        calc.cropPercentage[1] * calc.scaledCrop[2]
            = calc.scaledCrop[1] * calc.cropPercentage[2]

C15_Witness ==
    /\ entry = "calc"
    /\ srcW = 5 /\ srcH = 10 /\ dstW = 192 /\ dstH = 108
    /\ calc.scaledCrop # <<>>
    /\ calc.scaledCrop[1] # 0
    /\ calc.cropPercentage # calc.scaledCrop

\* C16: in every run of processSourceV2, whatever the entry point, the attempt
\* number, the source id and the device list, the fingerprint, the key of the
\* existence check, the fingerprint of the result and the path the original is
\* written to are fixed functions of the downloaded bytes alone; two runs that
\* download the same bytes therefore agree on all of them.
C16_FingerprintFromBytes ==
    entry \in {"job", "v2", "v2old"} =>
        /\ blobHash # NoHash => blobHash = calculateHash(buffer)
        /\ checkedHash # NoHash => checkedHash = calculateHash(buffer)
        /\ \A i \in 1..Len(calls) :
               calls[i].op = "blobs" => calls[i].id = calculateHash(buffer)
        /\ result.status # "none" => result.blobHash = calculateHash(buffer)
        /\ \A i \in 1..Len(uploads) :
               uploads[i].dir = "images/originals" =>
                   uploads[i] = OriginalPath(calculateHash(buffer),
                                             Ext(MetadataFormat(buffer)))

C16_Witness ==
    /\ entry = "job"
    /\ attempt = MAX_RETRIES
    /\ buffer = 2
    /\ checkedHash = calculateHash(2)
    /\ OriginalPath(calculateHash(2), "png") \in Range(uploads)
    /\ result.status = "processed"

\* The positions in tries of the variant attempts made for device d.
TriesOf(d) == {k \in 1..Len(tries) : tries[k].dev = d}

\* C17: when processSourceV2 (current version) has returned processed, every
\* device without a non-empty layout list has had exactly one variant attempt,
\* of layout type single and of the device's own width and height, whatever
\* the crop cost of the source against the device, and the variant is in the
\* result when its render and upload succeeded.
C17_LegacyFallback ==
    (entry \in {"job", "v2"} /\ result.status = "processed") =>
        \A d \in 1..Len(devices) :
            ~HasLayouts(devices[d]) =>
                /\ Cardinality(TriesOf(d)) = 1
                /\ \A k \in TriesOf(d) :
                       /\ tries[k].lay = 0
                       /\ tries[k].variant.layout_type = "single"
                       /\ tries[k].variant.width = devices[d].width
                       /\ tries[k].variant.height = devices[d].height
                       /\ tries[k].ok => tries[k].variant \in Range(result.variants)

C17_Witness ==
    /\ entry = "job"
    /\ result.status = "processed"
    /\ dims = <<50, 100>>
    /\ Len(devices) >= 1
    /\ devices[1].layouts.kind = "object"
    /\ OverHalf(calculateCropPercentage(dims[1], dims[2],
                                        devices[1].width, devices[1].height))
    /\ \E k \in TriesOf(1) : tries[k].ok /\ tries[k].variant.width = 192

\* processSourceV2 was called with the one device whose only layout is single
\* and the evaluator has answered for it.
SingleOnlyEvaluated ==
    /\ entry = "v2"
    /\ devices = <<SingleOnlyDevice>>
    /\ \/ pc \in {"v2_layout", "v2_layout_up", "returned"}
       \/ pc = "v2_device" /\ dIdx > 1

\* C18: for a 500x1000 source and the 1920x1080 device with only the single
\* layout, the crop cost of the one candidate is about 90.97% (between 90.9%
\* and 91.0%), the evaluator's answer is empty, no render is started, no
\* variant is attempted and the result holds no variant.
C18_TallSourceRejected ==
    (SingleOnlyEvaluated /\ dims = <<50, 100>>) =>
        /\ LET c == calculateCropPercentage(50, 100, 192, 108)
           IN 909 * c[2] < 1000 * c[1] /\ 1000 * c[1] < 910 * c[2]
        /\ eligible = <<>>
        /\ renders = 0
        /\ tries = <<>>
        /\ variants = <<>>
        /\ result.variants = <<>>

\* C19: when processSourceV2 has returned processed, every variant attempted
\* for a candidate the evaluator returned has the candidate's width, height and
\* layout type, in its record and in its path, and every variant of the result
\* is one of those whose attempt succeeded; for a 1920x1080 source and the
\* 1920x1080 device with only the single layout there is one candidate, of
\* cost 0, one attempt, and, when its render and upload succeeded, exactly one
\* variant, sized 1920x1080.
C19_VariantSizedAsCandidate ==
    entry \in {"job", "v2"} =>
        /\ result.status = "processed" =>
               /\ \A k \in 1..Len(tries) :
                      tries[k].lay > 0 =>
                          LET cand == evaluateImageLayouts(dims[1], dims[2],
                                          devices[tries[k].dev].layouts)[tries[k].lay]
                          IN /\ tries[k].variant.width = cand.width
                             /\ tries[k].variant.height = cand.height
                             /\ tries[k].variant.layout_type = cand.layoutType
                             /\ tries[k].variant.storage_path.w = cand.width
                             /\ tries[k].variant.storage_path.h = cand.height
               /\ \A i \in 1..Len(result.variants) :
                      \E k \in 1..Len(tries) :
                          tries[k].ok /\ tries[k].variant = result.variants[i]
        /\ (SingleOnlyEvaluated /\ dims = <<192, 108>>) =>
               /\ Len(eligible) = 1
               /\ eligible[1].cropPercentage[1] = 0
               /\ result.status = "processed" =>
                      /\ Len(tries) = 1
                      /\ Len(result.variants) = (IF tries[1].ok THEN 1 ELSE 0)
                      /\ \A i \in 1..Len(result.variants) :
                             /\ result.variants[i].width = 192
                             /\ result.variants[i].height = 108

C19_Witness ==
    /\ SingleOnlyEvaluated
    /\ dims = <<192, 108>>
    /\ result.status = "processed"
    /\ Len(result.variants) = 1
    /\ result.variants[1].width = 192
    /\ result.variants[1].height = 108
    /\ result.variants[1].layout_type = "single"

\* A configuration value the process is said to require is absent: the backend
\* URL or the bucket name, and for the sharded coordinator the task index or the
\* task count.
RequiredConfigMissing ==
    \/ entry \in {"shard", "job"} /\ (~cfgUrl \/ ~cfgBucket)
    \/ entry = "shard" /\ (~cfgIndex \/ ~cfgCount)

\* C20: when a required configuration value is absent, the process takes no
\* step of work (it is at its start or has exited; nothing was fetched, no
\* backend request was sent, nothing was rendered or written) and it ends with
\* a non-zero status.
C20_MissingConfigExitsFirst ==
    RequiredConfigMissing =>
        /\ pc \in {"start", "exit"}
        /\ ~fetched
        /\ calls = <<>>
        /\ renders = 0
        /\ uploads = <<>>
        /\ pc = "exit" => exitCode # 0

\* ------------------------------------------------------------------ C21
\* C21: a fingerprint is processed at most once: of the workers that hold the
\* same bytes, at most one passes the existence check and goes on to store the
\* original and generate the variants.
C21_AtMostOncePerFingerprint ==
    \A v, w \in Workers :
        (v # w /\ wbuf[v] # 0 /\ wbuf[v] = wbuf[w]) =>
            ~(wrote[v] /\ wrote[w])

\* ------------------------------------------------------------------ C22
\* The path processed/{layoutType}/{width}x{height}/{fingerprint}.jpg built
\* from what a variant records.
NamespacedPathOf(v, hash) ==
    [dir |-> "processed", layout |-> v.layout_type, w |-> v.width,
     h |-> v.height, name |-> hash, ext |-> "jpg"]

\* The path processed/{width}x{height}/{fingerprint}.jpg built from what a
\* variant records.
FlatPathOf(v, hash) ==
    [dir |-> "processed", layout |-> "", w |-> v.width, h |-> v.height,
     name |-> hash, ext |-> "jpg"]

\* The successful variant attempts of the run, in order.
OkTries == SelectSeq(tries, LAMBDA t : t.ok)

\* C22 as stated: every variant of a processed result, layout variant or
\* fallback single variant, was uploaded to
\* processed/{layoutType}/{width}x{height}/{fingerprint}.jpg.
C22_AllVariantsNamespaced ==
    (entry \in {"job", "v2"} /\ result.status = "processed") =>
        \A i \in 1..Len(result.variants) :
            /\ result.variants[i].storage_path =
                   NamespacedPathOf(result.variants[i], result.blobHash)
            /\ result.variants[i].storage_path \in Range(uploads)

\* C22 (amended): the variants of a processed result are exactly the
\* successful variant attempts, each one was uploaded to the path it records,
\* and that path is processed/{layoutType}/{width}x{height}/{fingerprint}.jpg
\* for a layout variant and processed/{width}x{height}/{fingerprint}.jpg for
\* the fallback single variant of a device without a layout list.
C22_VariantUploadedAtItsPath ==
    (entry \in {"job", "v2"} /\ result.status = "processed") =>
        /\ Len(result.variants) = Len(OkTries)
        /\ \A i \in 1..Len(result.variants) :
               /\ result.variants[i] = OkTries[i].variant
               /\ result.variants[i].storage_path \in Range(uploads)
               /\ result.variants[i].storage_path =
                      IF OkTries[i].lay = 0
                      THEN FlatPathOf(result.variants[i], result.blobHash)
                      ELSE NamespacedPathOf(result.variants[i], result.blobHash)

\* A processed result holding a layout variant and a fallback single variant.
C22_Witness ==
    /\ entry = "v2" /\ result.status = "processed"
    /\ \E i, j \in 1..Len(OkTries) : OkTries[i].lay = 0 /\ OkTries[j].lay > 0

\* ------------------------------------------------------------------ C23
\* C23: in the sharded coordinator, on a run whose attempt number (the
\* scheduler's counter plus 1) has reached MAX_RETRIES, a source whose
\* processing failed was reported through the terminal-failure endpoint and no
\* report went to the transient-failure endpoint.
C23_ShardTerminalWhenExhausted ==
    (entry = "shard" /\ caught /\ schedAttempt + 1 >= MAX_RETRIES) =>
        /\ nTerminal >= 1
        /\ nTransient = 0
        /\ \A i \in 1..Len(calls) : calls[i].op # "PATCH failed"

\* ------------------------------------------------------------------ C24
\* The scheduler's 0-based attempt counter of the run; an absent header or
\* environment variable counts as 0.
SchedulerCounter == IF schedAttempt = NoHeader THEN 0 ELSE schedAttempt

\* The requests that carry an attempt number: registration and both failure
\* reports.
CarriesAttempt(c) == c.op \in {"start", "PATCH failed", "POST failed"}

\* C24: in every entry point, every attempt number sent to the backend, in
\* registration and in failure reports, is the scheduler's 0-based counter
\* plus 1.
C24_AttemptIsCounterPlusOne ==
    \A i \in 1..Len(calls) :
        CarriesAttempt(calls[i]) => calls[i].attempt = SchedulerCounter + 1

\* ------------------------------------------------------------------ C25
\* Registration of the only source of the run succeeded and returned an empty
\* device list.
RegisteredWithNoDevices ==
    /\ entry \in {"shard", "handler", "job"}
    /\ entry = "shard" => Len(myImages) = 1
    /\ registered
    /\ devices = <<>>

\* C25: when registration succeeded with an empty device list, the attempt is
\* not a failure: nothing is rendered, no failure report of either kind is
\* sent, the failure counter stays 0 and the run does not end with a non-zero
\* status.
C25_EmptyDeviceListIsNoFailure ==
    RegisteredWithNoDevices =>
        /\ renders = 0
        /\ nTransient = 0 /\ nTerminal = 0
        /\ \A i \in 1..Len(calls) :
               calls[i].op \notin {"PATCH failed", "POST failed"}
        /\ failed = 0
        /\ pc = "exit" => exitCode = 0

\* ------------------------------------------------------------------ C26
\* The registration request of the only source of the run was sent and did not
\* succeed (network error or non-2xx answer), and the entry point has finished.
RegistrationFailed ==
    /\ entry \in {"shard", "handler", "job"}
    /\ entry = "shard" => Len(myImages) = 1
    /\ \E i \in 1..Len(calls) : calls[i].op = "start"
    /\ ~registered
    /\ pc \in {"exit", "responded"}

\* C26: a backend error during registration on an attempt after which attempts
\* remain is a failure of the source: a transient-failure report is sent, the
\* source is not counted as processed and the run does not end with success
\* status.
C26_RegistrationErrorIsFailure ==
    (RegistrationFailed /\ SchedulerCounter + 1 < MAX_RETRIES) =>
        /\ \E i \in 1..Len(calls) : calls[i].op = "PATCH failed"
        /\ processed = 0
        /\ entry \in {"shard", "job"} => exitCode # 0
        /\ entry = "handler" => httpStatus # 200

\* ------------------------------------------------------------------ C27
\* The target the stated derivation gives for a device of width W and height
\* H, a layout type and a gap g; the two pair types are the paired kind.
DerivedTarget(device, layoutType, g) ==
    IF layoutType = "single"
    THEN <<device.width, device.height>>
    ELSE IF device.height > device.width
         THEN <<device.width, (device.height - g) \div 2>>
         ELSE <<(device.width - g) \div 2, device.height>>

\* C27: every candidate the evaluator returned for a device has the target
\* dimensions derived from the device's width, height and gap, for some gap
\* the device may carry.
C27_TargetsDerivedFromDevice ==
    InLayoutLoop =>
        \A i \in 1..Len(eligible) :
            \E g \in 0..(devices[dIdx].width + devices[dIdx].height) :
                <<eligible[i].width, eligible[i].height>> =
                    DerivedTarget(devices[dIdx], eligible[i].layoutType, g)

\* ------------------------------------------------------------------ C28
\* The layout kinds enabled for a device: the types listed in its layout
\* array, and the implicit single kind when it has no such array.
EnabledKinds(device) ==
    IF HasLayouts(device)
    THEN {device.layouts.items[i].type : i \in 1..Len(device.layouts.items)}
    ELSE {"single"}

C29_DuplicateDoesNoWork ==
    exists = "true" =>
        /\ dims = <<0, 0>>
        /\ renders = 0
        /\ uploads = <<>>
        /\ tries = <<>>
        /\ variants = <<>>
        /\ pc \notin {"v2_meta", "v2_original", "v2_colors", "v2_device",
                      "v2_layout", "v2_layout_up", "v2_legacy", "v2_legacy_up"}

\* The job found its source known to the backend and has ended.
C29_Witness ==
    /\ entry = "job"
    /\ exists = "true"
    /\ pc = "exit"
    /\ Len(devices) > 0
    /\ result.status = "duplicate"

\* ------------------------------------------------------------------ C30
\* The job was started with its whole configuration present.
JobConfigured == entry = "job" /\ cfgTarget /\ cfgBucket /\ cfgUrl

\* The job's source has reached a terminal state: a run ended with the source
\* processed or found to be a duplicate, or with a terminal-failure report.
SourceSettled ==
    /\ pc = "exit"
    /\ \/ result.status \in {"processed", "duplicate"}
       \/ nTerminal >= 1

\* C30: with the scheduler restarting the job after every failed attempt, the
\* source of a configured job eventually reaches a terminal state: processed,
\* duplicate, or failed with a terminal-failure report.
C30_EventuallySettled == JobConfigured => <>SourceSettled

\* ------------------------------------------------------------------ C31
\* The /process handler has answered a request whose processing threw.
HandlerFailed == entry = "handler" /\ caught /\ pc = "responded"

SubmitAttempted ==
    /\ entry \in {"shard", "handler"}
    /\ \E i \in 1..Len(calls) : calls[i].op = "processed-images"

\* C32: whenever the API submission of an image has been attempted, whether
\* it succeeded or failed, the metadata sidecar has already been written, it
\* lists the result of every device, and every result it lists has been
\* uploaded.
C32_SidecarBeforeSubmit ==
    SubmitAttempted =>
        /\ sidecar = <<TRUE, results>>
        /\ Len(results) = Len(devices)
        /\ \A i \in 1..Len(results) :
               /\ results[i].device = devices[i]
               /\ results[i].filePath \in Range(uploads)

\* The submission of two device results failed after the sidecar was written.
C32_Witness ==
    /\ SubmitAttempted
    /\ caught
    /\ Len(devices) = 2
    /\ sidecar[1]
    /\ Len(sidecar[2]) = 2

\* ------------------------------------------------------------------ C33
\* What identifies a variant within a result.
VariantKey(v) == <<v.layout_type, v.width, v.height>>

\* C33: in a processSourceV2 call no two variants collected for the result
\* share their layout type, width and height, and no storage path is written
\* more than once.
C33_VariantsDistinct ==
    entry \in {"job", "v2"} =>
        /\ \A i, j \in 1..Len(variants) :
               VariantKey(variants[i]) = VariantKey(variants[j]) => i = j
        /\ \A i, j \in 1..Len(uploads) : uploads[i] = uploads[j] => i = j

\* ------------------------------------------------------------------ C34
\* Every task instance of the execution has fetched the pending list.
FleetAllFetched == entry = "fleet" /\ \A t \in FleetTasks : fleetFetched[t]

\* The sources some instance saw in its fetched list.
FleetSeen == UNION {Range(fleetAll[t]) : t \in FleetTasks}

\* The instances that keep source s in their subset.
FleetOwners(s) == {t \in FleetTasks : s \in Range(fleetMine[t])}

\* C34: the coordinator divides the work correctly only through what the
\* instances fetched: whenever a source is kept by two instances or by none,
\* the instances did not observe the same list; instances that observed the
\* same list keep every source of it exactly once.
C34_DisjointOnlyWithSameList ==
    FleetAllFetched =>
        ((\E s \in FleetSeen : Cardinality(FleetOwners(s)) # 1)
            => \E t, u \in FleetTasks : fleetAll[t] # fleetAll[u])

\* Two instances observed the same sources in different orders: one source is
\* kept by both instances and another by none.
C34_Witness ==
    /\ FleetAllFetched
    /\ \A t, u \in FleetTasks : Range(fleetAll[t]) = Range(fleetAll[u])
    /\ \E s \in FleetSeen : Cardinality(FleetOwners(s)) = 2
    /\ \E s \in FleetSeen : Cardinality(FleetOwners(s)) = 0

\* ------------------------------------------------------------------ C35
\* C35: for positive source and target dimensions the crop percentage
\* 100 * num / den returned by calculateCropPercentage is at least 0 and below
\* 100, in the branch that crops width and in the branch that crops height.
C35_CropWithinRange ==
    (entry = "calc" /\ calc.cropPercentage # <<>>) =>
        /\ calc.cropPercentage[2] > 0
        /\ calc.cropPercentage[1] >= 0
        /\ calc.cropPercentage[1] < calc.cropPercentage[2]
        /\ calc.scaledCrop # <<>> =>
               /\ calc.scaledCrop[2] > 0
               /\ calc.scaledCrop[1] >= 0
               /\ calc.scaledCrop[1] < calc.scaledCrop[2]

\* A 10 x 330 source against a 1920 x 1080 target: the height-cropping branch,
\* with a cost above 98 percent.
C35_Witness ==
    /\ entry = "calc"
    /\ srcW = 1 /\ srcH = 33 /\ dstW = 192 /\ dstH = 108
    /\ calc.cropPercentage # <<>>
    /\ 100 * calc.cropPercentage[1] > 98 * calc.cropPercentage[2]

\* ------------------------------------------------------------------ C36
\* C36: in the sharded coordinator the sources handled so far are counted
\* once each, as processed or as failed: while the loop runs the two counters
\* add up to the number of finished iterations, at the end of the loop to the
\* size of the shard, and a failure whose report threw is counted as well.
C36_CountersAddUp ==
    (entry = "shard" /\ fetched) =>
        /\ processed >= 0 /\ failed >= 0
        /\ processed + failed = idx - 1
        /\ pc = "exit" => processed + failed = Len(myImages)
        /\ reportThrew => failed >= 1

\* The loop is over: one source was processed, one failed and its report
\* threw.
C36_Witness ==
    /\ entry = "shard" /\ fetched
    /\ pc = "exit"
    /\ Len(myImages) = 2
    /\ processed = 1 /\ failed = 1
    /\ reportThrew

\* ------------------------------------------------------------------ C37
\* The run of processSourceV2 has rendered, attempted or written a variant.
VariantWorkDone ==
    \/ renders > 0
    \/ tries # <<>>
    \/ \E i \in 1..Len(uploads) : uploads[i].dir = "processed"

\* C37: in every state of a processSourceV2 run, if a variant has been
\* rendered, attempted or written, then the first object the run wrote is the
\* original images/originals/{fingerprint}.{ext}, and everything written after
\* it is a variant of the same fingerprint; a run that wrote no original has
\* rendered and written nothing and returns no processed result.
C37_OriginalBeforeVariants ==
    entry \in {"job", "v2", "v2old"} =>
        /\ VariantWorkDone =>
               /\ Len(uploads) >= 1
               /\ uploads[1].dir = "images/originals"
               /\ uploads[1].name = calculateHash(buffer)
               /\ uploads[1].ext = Ext(MetadataFormat(buffer))
               /\ \A i \in 2..Len(uploads) :
                      /\ uploads[i].dir = "processed"
                      /\ uploads[i].name = uploads[1].name
        /\ uploads = <<>> =>
               /\ variants = <<>>
               /\ result.status # "processed"

\* The run of the earlier version wrote the original and then two variants.
C37_Witness ==
    /\ entry = "v2old"
    /\ Len(uploads) = 3
    /\ uploads[1].dir = "images/originals"
    /\ uploads[2].dir = "processed" /\ uploads[3].dir = "processed"

\* ------------------------------------------------------------------ C38
\* The existence check answered false and the metadata step is over without
\* both pixel dimensions: the width or the height was missing or zero.
DimensionsMissing ==
    /\ entry \in {"job", "v2", "v2old"}
    /\ exists = "false"
    /\ pc # "v2_meta"
    /\ dims[1] = 0 \/ dims[2] = 0

\* C38: when the pixel dimensions of the source cannot be extracted,
\* processSourceV2 has thrown: nothing was written to storage, neither the
\* original nor a variant, nothing was rendered and no result was returned.
C38_NoDimensionsNoWrite ==
    DimensionsMissing =>
        /\ pc \in {"threw", "j_catch", "exit"}
        /\ uploads = <<>>
        /\ renders = 0
        /\ variants = <<>> /\ tries = <<>>
        /\ result = NoResult

\* The job's source had no readable dimensions: the failure was caught and
\* reported, and the job has ended.
C38_Witness ==
    /\ DimensionsMissing
    /\ entry = "job"
    /\ pc = "exit"
    /\ caught
    /\ exitCode = 1
    /\ uploads = <<>>

\* ------------------------------------------------------------------ C39
\* The job has asked its existence check about the fingerprint.
JobChecked == entry = "job" /\ checkedHash # NoHash

\* C39: in the job the existence check always yields an answer, true or false,
\* and never throws: a failure of the run was not caused by the check, the
\* answer true needs a backend that was asked, and after the answer false the
\* source goes on through the processing steps as a non-duplicate.
C39_CheckFailsOpen ==
    JobChecked =>
        /\ exists \in {"true", "false"}
        /\ exists = "true" =>
               /\ cfgUrl
               /\ \E i \in 1..Len(calls) :
                      calls[i].op = "blobs" /\ calls[i].id = checkedHash
        /\ (exists = "false" /\ ~caught) =>
               pc \in {"v2_meta", "v2_original", "v2_colors", "v2_device",
                       "v2_layout", "v2_layout_up", "v2_legacy", "v2_legacy_up",
                       "j_success", "j_catch", "exit"}
        /\ (pc = "exit" /\ exists = "false" /\ ~caught) =>
               result.status = "processed" /\ exitCode = 0

\* The check answered false and the job processed its source to the end.
C39_Witness ==
    /\ JobChecked
    /\ exists = "false"
    /\ pc = "exit"
    /\ ~caught
    /\ result.status = "processed"
    /\ Len(result.variants) >= 1

\* ------------------------------------------------------------------ C40
\* The ratio w / h satisfies both bounds of the layout, each bound inclusive
\* and an undefined bound satisfied by every ratio.
WithinBounds(w, h, layout) ==
    /\ layout.min[2] = 0 \/ w * layout.min[2] >= layout.min[1] * h
    /\ layout.max[2] = 0 \/ w * layout.max[2] <= layout.max[1] * h

\* The positions of the device's layout list whose bounds the source satisfies.
IncludedLayouts(w, h, items) ==
    {p \in 1..Len(items) : WithinBounds(w, h, items[p])}

\* Candidate c was made from layout entry l.
MadeFrom(c, l) ==
    c.layoutType = l.type /\ c.width = l.width /\ c.height = l.height

\* C40: the evaluator's output for a device holds exactly one candidate for
\* each layout whose inclusive, optional ratio bounds the source satisfies and
\* none for any other layout; for an absent or empty layout list the output is
\* empty.
C40_IncludedIffWithinBounds ==
    /\ InLayoutLoop =>
           LET items == devices[dIdx].layouts.items
               inc == IncludedLayouts(dims[1], dims[2], items)
           IN /\ Len(eligible) = Cardinality(inc)
              /\ \A p \in 1..Len(items) :
                     Cardinality({i \in 1..Len(eligible) :
                                      MadeFrom(eligible[i], items[p])})
                         = IF p \in inc THEN 1 ELSE 0
    /\ (entry \in {"job", "v2"} /\ pc \in {"v2_legacy", "v2_legacy_up"}) =>
           evaluateImageLayouts(dims[1], dims[2], devices[dIdx].layouts) = <<>>

\* A square source on the device whose single layout has the lower bound 1
\* and whose pair layout has the upper bound 1: the ratio equals both bounds
\* and both layouts are in the output.
C40_Witness ==
    /\ entry = "v2"
    /\ InLayoutLoop
    /\ dims = <<100, 100>>
    /\ Len(devices[dIdx].layouts.items) = 2
    /\ devices[dIdx].layouts.items[1].max = <<1, 1>>
    /\ devices[dIdx].layouts.items[2].min = <<1, 1>>
    /\ Len(eligible) = 2

=============================================================================
